---------------------------- MODULE Spec2Model ----------------------------
(***************************************************************************)
(* Model of the usePoseCoach hook (five exercise modes): the per-exercise  *)
(* analyzers, the smoothing and baseline state they keep in refs, the      *)
(* feedback / speech throttle and the session controller.                  *)
(*                                                                         *)
(* Numbers.  JavaScript numbers are modelled in fixed point:               *)
(*   - normalized coordinates in thousandths of the frame (0.07 -> 70);    *)
(*   - angles in whole degrees;                                            *)
(*   - times in milliseconds.                                              *)
(* Products of two program constants are written as exact integer         *)
(* comparisons (cross-multiplied).  The exponential moving average rounds  *)
(* to the nearest unit, as floating point rounds to the nearest ulp.       *)
(*                                                                         *)
(* React.  Refs are written at once.  State setters called with an updater *)
(* (repCount, feedback) are applied in call order.  The phase an analyzer  *)
(* reads (squatState, pushupState, ...) is the value captured by the       *)
(* closure of the last render; the variable "rendered" holds it and the    *)
(* action Render brings it up to date.                                     *)
(***************************************************************************)
EXTENDS Integers, Sequences, FiniteSets, TLC

\* null / undefined where the source holds a number or nothing
Null == 0 - 1000000
\* NaN where the source holds a number
NaN == 0 - 2000000

\* null where the source holds an error text or nothing
NoError == "null"

----------------------------------------------------------------------------
(* Program constants (src/unnamed/part_002, lines 1107-1153).               *)

SPEECH_COOLDOWN_MS == 3000
STANDING_KNEE_ANGLE == 165
BOTTOM_KNEE_ANGLE == 100
\* 0.07 in thousandths
MIN_HIP_DELTA_FOR_REP == 70
\* 0.75 in hundredths
MIN_KNEE_WIDTH_RATIO == 75
\* 0.018 in thousandths
HIP_RETURN_TOLERANCE == 18
\* 0.02 in thousandths
HIP_BELOW_KNEE_THRESHOLD == 20
FRONT_KNEE_ANGLE_MAX == 125
STANDING_ANGLE_RELAXATION == 3
BOTTOM_ANGLE_RELAXATION == 5
\* 0.9 in tenths
REP_DEPTH_MARGIN == 9
\* 0.8 in tenths
HIP_BELOW_THRESHOLD_MARGIN == 8
MIN_BOTTOM_HOLD_FRAMES == 2
MIN_STANDING_HOLD_FRAMES == 2
\* 0.25 in hundredths
SMOOTHING_ALPHA_HIPS == 25
\* 0.35 in hundredths
SMOOTHING_ALPHA_KNEE == 35
\* 0.25 in hundredths
SMOOTHING_ALPHA_PLANK == 25
PLANK_WARN_FRAMES == 6
PLANK_STRICT_FRAMES == 12
\* 0.16 in thousandths
PLANK_MAX_SHOULDER_HIP_DELTA == 160
\* 0.22 in thousandths
PLANK_MAX_HIP_ANKLE_DELTA == 220
PLANK_STANDING_GRACE_FRAMES == 4
PLANK_STRONG_ANGLE == 165
PLANK_MIN_ANGLE == 158
PLANK_TIMER_UPDATE_INTERVAL_MS == 100
PUSHUP_TOP_ANGLE == 148
PUSHUP_BOTTOM_ANGLE == 110
\* 0.04 in thousandths
PULLUP_TOP_NOSE_OFFSET == 40
\* 0.14 in thousandths
PULLUP_BOTTOM_WRIST_OFFSET == 140
\* 0.68 in hundredths
JACK_DEFAULT_NEUTRAL_LEG_RATIO == 68
\* 0.82 in hundredths
JACK_DEFAULT_NEUTRAL_WRIST_RATIO == 82
\* 0.08 in thousandths
JACK_MIN_NEUTRAL_ANKLE_GAP == 80
\* 0.18 in thousandths
JACK_MIN_NEUTRAL_WRIST_GAP == 180
\* 0.09 in thousandths
JACK_WIDE_LEG_EXTRA == 90
\* 0.45 in hundredths
JACK_WIDE_LEG_RATIO == 45
\* 0.05 in thousandths
JACK_CENTER_LEG_EXTRA == 50
\* 0.25 in hundredths
JACK_CENTER_LEG_RATIO == 25
\* 0.04 in thousandths
JACK_ARM_OVERHEAD_DELTA == 40
\* -0.035 in thousandths
JACK_ARM_DOWN_DELTA == -35
\* 0.8 in hundredths
JACK_ALMOST_ARM_RATIO == 80
\* 0.85 in hundredths
JACK_ALMOST_LEG_RATIO == 85
\* 1.25 in hundredths
JACK_CENTER_RETURN_RATIO == 125
JACK_FEEDBACK_COOLDOWN_MS == 1200
\* standingHoldFramesRef / bottomHoldFramesRef saturate at 60 (Math.min(.., 60))
HOLD_FRAMES_CAP == 60
\* plankStandingFramesRef saturates at 120
PLANK_STANDING_CAP == 120

SUPPORTED_MODES == {"squat", "plank", "pushup", "pullup", "jumpingJack"}

----------------------------------------------------------------------------
(* Bounds of the model.                                                     *)

\* the wall clock stops advancing at MaxClock milliseconds
MaxClock == 3000
\* Date.now() at page load; any value of at least the speech cooldown
EpochMs == 3000
\* repCount is not driven beyond MaxReps
MaxReps == 2
\* no frame drives standingHoldFramesRef or bottomHoldFramesRef beyond MaxHoldFrames,
\* plankStandingFramesRef beyond MaxStandingFrames, plankLowFramesRef beyond MaxLowFrames
MaxHoldFrames == 4
MaxStandingFrames == 4
MaxLowFrames == 14
\* outside the long runs of plank frames, no frame drives plankLowFramesRef
\* beyond MaxTimedLowFrames
MaxTimedLowFrames == 3
\* the resolution smoothed angles (degrees) and smoothed heights (thousandths) are kept at
AngleGrid == 5
CoordGrid == 10
\* the resolution the smoothed torso angle (degrees) is kept at
PlankGrid == 4
\* start() calls that may be awaiting the camera at once
MaxPendingStarts == 1
\* the same, where the overlap of start() calls is what is examined
MaxOverlappingStarts == 2
\* frames of one session in which the detector loses sight of a joint
MaxGapFrames == 1
\* frames the camera delivers while the render loop is watched
MaxVideoFrames == 3

----------------------------------------------------------------------------
(* Arithmetic helpers.                                                      *)

Abs(x) == IF x < 0 THEN -x ELSE x
Max(a, b) == IF a >= b THEN a ELSE b
Min(a, b) == IF a <= b THEN a ELSE b

\* n / d rounded to the nearest integer (halves away from zero), d > 0
RoundDiv(n, d) == IF n >= 0 THEN (2 * n + d) \div (2 * d)
                            ELSE -((2 * (-n) + d) \div (2 * d))

\* smoothValue as it would be if a missing sample cleared the accumulator
SmoothAccForgetful(acc, value, alpha, grid) ==
    IF value = Null \/ value = NaN THEN Null
    ELSE IF acc = Null \/ acc = NaN THEN value
    ELSE acc + grid * RoundDiv(alpha * (value - acc), 100 * grid)

\* smoothValue(ref, value, alpha): the new accumulator.  alpha in hundredths.
\* A null or NaN sample leaves the accumulator as it is; the first sample is
\* taken as it is; later the accumulator moves by alpha * (value - acc),
\* rounded to the nearest multiple of grid (the resolution the accumulator is
\* kept at).
SmoothAcc(acc, value, alpha, grid) ==
    IF value = Null \/ value = NaN THEN acc
    ELSE IF acc = Null \/ acc = NaN THEN value
    ELSE acc + grid * RoundDiv(alpha * (value - acc), 100 * grid)

\* smoothValue's return value: null for a null or NaN sample, else the
\* accumulator.
SmoothValue(acc, value, alpha, grid) ==
    IF value = Null \/ value = NaN THEN Null ELSE SmoothAcc(acc, value, alpha, grid)

\* a ?? b
Coalesce(a, b) == IF a = Null THEN b ELSE a

\* the mean of one or two numbers (reduce(sum) / length), to the nearest unit
Mean(s) == IF Len(s) = 1 THEN s[1] ELSE RoundDiv(s[1] + s[2], 2)

----------------------------------------------------------------------------
(* State.                                                                   *)

VARIABLES
    mode,            \* the mode prop: a supported mode
    isStarted,       \* useState
    isVideoReady,    \* useState
    appError,        \* useState: NoError or an error text
    repCount,        \* useState
    feedback,        \* useState: the displayed text
    phase,           \* useState: squatState, pushupState, pullupState, jackState, plankState
    plankHoldMs,     \* useState: the published hold time
    rendered,        \* what the closures of the last render captured: the phases, isStarted, isVideoReady
    refs,            \* every useRef of the hook, by name
    pendingStarts,   \* start() calls awaiting the camera or the video metadata
    clock,           \* milliseconds since page load (performance.now())
    said,            \* the utterances handed to speechSynthesis by the last step, in order
    lastUtterAt,     \* Date.now() of the most recent utterance, or Null
    hist             \* what the properties need to know of the frames analyzed so far

vars == <<mode, isStarted, isVideoReady, appError, repCount, feedback, phase, plankHoldMs,
          rendered, refs, pendingStarts, clock, said, lastUtterAt, hist>>

\* Date.now(): wall-clock milliseconds
DateNow == EpochMs + clock

\* performance.now(): the timestamp handed to detectForVideo and analyzePlank
PerformanceNow == clock

InitialPhase ==
    [squatState |-> "start", pushupState |-> "setup", pullupState |-> "hang",
     jackState |-> "center", plankState |-> "setup"]

\* the refs as useRef initializes them, which is also what clearPoseRefs writes
\* (clearPoseRefs leaves lastSpeechTime alone)
ClearedRefs(lastSpeechTime) ==
    [lastSpeechTime |-> lastSpeechTime,
     standingHipRef |-> Null,
     bottomHipRef |-> Null,
     standingHipWidthRef |-> Null,
     smoothedHipYRef |-> Null,
     smoothedKneeYRef |-> Null,
     smoothedKneeAngleRef |-> Null,
     standingHoldFramesRef |-> 0,
     bottomHoldFramesRef |-> 0,
     plankAngleRef |-> Null,
     plankLowFramesRef |-> 0,
     plankHoldMsRef |-> 0,
     plankLastTimestampRef |-> Null,
     plankHoldActiveRef |-> FALSE,
     lastPlankBroadcastRef |-> 0,
     pushupBottomSeenRef |-> FALSE,
     pullupHangSeenRef |-> FALSE,
     jackCenterReadyRef |-> TRUE,
     jackNeutralAnkleGapRef |-> Null,
     jackNeutralWristGapRef |-> Null,
     lastJackFeedbackRef |-> 0,
     plankStandingFramesRef |-> 0]

----------------------------------------------------------------------------
(* The hook's mutable state as one value, threaded through the statements   *)
(* of a handler: c.refs, c.phase, c.repCount, c.feedback, c.plankHoldMs,    *)
(* c.said (utterances emitted so far) and c.lastUtter (when the most recent *)
(* utterance was emitted).                                                  *)

Ctx ==
    [refs |-> refs, phase |-> phase, repCount |-> repCount, feedback |-> feedback,
     plankHoldMs |-> plankHoldMs, said |-> <<>>, lastUtter |-> lastUtterAt]

\* speak as it would be if the cooldown held back immediate utterances too
SpeakThrottled(c, text, immediate, now) ==
    IF now - c.refs.lastSpeechTime < SPEECH_COOLDOWN_MS
    THEN c
    ELSE [c EXCEPT !.said = Append(@, [text |-> text, immediate |-> immediate, at |-> now,
                                       prior |-> c.lastUtter]),
                   !.lastUtter = now,
                   !.refs.lastSpeechTime = now]

\* speak as it would be if an immediate utterance left lastSpeechTime alone
SpeakUnstamped(c, text, immediate, now) ==
    IF ~immediate /\ now - c.refs.lastSpeechTime < SPEECH_COOLDOWN_MS
    THEN c
    ELSE [c EXCEPT !.said = Append(@, [text |-> text, immediate |-> immediate, at |-> now,
                                       prior |-> c.lastUtter]),
                   !.lastUtter = now,
                   !.refs.lastSpeechTime = IF immediate THEN @ ELSE now]

\* speak(text, {immediate})
Speak(c, text, immediate, now) ==
    IF ~immediate /\ now - c.refs.lastSpeechTime < SPEECH_COOLDOWN_MS
    THEN c
    ELSE [c EXCEPT !.said = Append(@, [text |-> text, immediate |-> immediate, at |-> now,
                                       prior |-> c.lastUtter]),
                   !.lastUtter = now,
                   !.refs.lastSpeechTime = now]

\* FeedbackOptions with every flag absent
NoOptions == [immediate |-> FALSE, allowRepeat |-> FALSE, silent |-> FALSE]
Immediate == [NoOptions EXCEPT !.immediate = TRUE]
Silent == [NoOptions EXCEPT !.silent = TRUE]

\* the updater as it would be if every call passed allowRepeat
SetFeedbackMessageRepeating(c, message, options, now) ==
    LET c1 == IF ~options.silent THEN Speak(c, message, options.immediate, now) ELSE c
    IN  [c1 EXCEPT !.feedback = message]

\* the updater as it would be if a message that speak skips were not
\* displayed either
SetFeedbackMessageHeld(c, message, options, now) ==
    IF c.feedback # message
    THEN LET c1 == IF ~options.silent THEN Speak(c, message, options.immediate, now) ELSE c
         IN  IF ~options.silent /\ c1.said = c.said THEN c
             ELSE [c1 EXCEPT !.feedback = message]
    ELSE IF ~options.silent /\ options.allowRepeat
         THEN Speak(c, message, options.immediate, now)
         ELSE c

\* the updater as it would be if a silent call left the displayed text alone
SetFeedbackMessageMuted(c, message, options, now) ==
    IF c.feedback # message
    THEN (IF ~options.silent
          THEN [Speak(c, message, options.immediate, now) EXCEPT !.feedback = message]
          ELSE c)
    ELSE IF ~options.silent /\ options.allowRepeat
         THEN Speak(c, message, options.immediate, now)
         ELSE c

\* setFeedbackMessage(message, options)
SetFeedbackMessage(c, message, options, now) ==
    IF c.feedback # message
    THEN LET c1 == IF ~options.silent THEN Speak(c, message, options.immediate, now) ELSE c
         IN  [c1 EXCEPT !.feedback = message]
    ELSE IF ~options.silent /\ options.allowRepeat
         THEN Speak(c, message, options.immediate, now)
         ELSE c

\* the updater as it would be if it added two
CreditRepTwice(c, now) ==
    LET next == c.repCount + 2
        c1 == Speak(c, "Rep " \o ToString(next), TRUE, now)
    IN  [c1 EXCEPT !.repCount = next]

\* the credit as it would be if the announcement named the count before it
CreditRepStale(c, now) ==
    LET next == c.repCount + 1
        c1 == Speak(c, "Rep " \o ToString(c.repCount), TRUE, now)
    IN  [c1 EXCEPT !.repCount = next]

\* setRepCount((previous) => { const next = previous + 1; speak(`Rep ${next}`, {immediate: true}); return next; })
CreditRep(c, now) ==
    LET next == c.repCount + 1
        c1 == Speak(c, "Rep " \o ToString(next), TRUE, now)
    IN  [c1 EXCEPT !.repCount = next]

\* clearPoseRefs as it would be if it left the baselines of the squat and of
\* the jumping jack in place
ClearPoseRefsKeepingBaselines(c) ==
    [c EXCEPT !.refs = [ClearedRefs(c.refs.lastSpeechTime) EXCEPT
                            !.standingHipRef = c.refs.standingHipRef,
                            !.standingHipWidthRef = c.refs.standingHipWidthRef,
                            !.jackNeutralAnkleGapRef = c.refs.jackNeutralAnkleGapRef,
                            !.jackNeutralWristGapRef = c.refs.jackNeutralWristGapRef],
              !.repCount = 0,
              !.phase = InitialPhase,
              !.plankHoldMs = 0]

\* clearPoseRefs()
ClearPoseRefs(c) ==
    [c EXCEPT !.refs = ClearedRefs(c.refs.lastSpeechTime),
              !.repCount = 0,
              !.phase = InitialPhase,
              !.plankHoldMs = 0]

----------------------------------------------------------------------------
(* Landmarks.  getPoint(landmarks, i) is a point or null: a point is        *)
(* [ok |-> TRUE, x, y], null is Missing.  angleBetween(a, b, c) is not      *)
(* computed from coordinates: a frame carries, for each joint angle an      *)
(* analyzer measures, the angle the three points form (the third point of   *)
(* each triple is read for nothing else, so every angle is attainable).     *)

Missing == [ok |-> FALSE, x |-> 0, y |-> 0]
Pt(x, y) == [ok |-> TRUE, x |-> x, y |-> y]

----------------------------------------------------------------------------
(* analyzeSquat(landmarks), reading squatState from its closure.            *)

\* computeKneeAngle(hip, knee, ankle): deg is angleBetween's value for the three
ComputeKneeAngle(hip, knee, ankle, deg) ==
    IF ~hip.ok \/ ~knee.ok \/ ~ankle.ok THEN Null ELSE deg

\* the y values of the points that are present, right first
PresentYs(right, left) ==
    (IF right.ok THEN <<right.y>> ELSE <<>>) \o (IF left.ok THEN <<left.y>> ELSE <<>>)

\* what analyzeSquat computes from a frame and the refs before it branches
SquatMeasure(r, lm) ==
    LET rightAngle == ComputeKneeAngle(lm.rightHip, lm.rightKnee, lm.rightAnkle, lm.rightKneeDeg)
        leftAngle == ComputeKneeAngle(lm.leftHip, lm.leftKnee, lm.leftAnkle, lm.leftKneeDeg)
        kneeAngles == (IF rightAngle # Null THEN <<rightAngle>> ELSE <<>>)
                      \o (IF leftAngle # Null THEN <<leftAngle>> ELSE <<>>)
        rawKneeAngle == IF Len(kneeAngles) > 0 THEN Mean(kneeAngles) ELSE Null
        avgHipY == Mean(PresentYs(lm.rightHip, lm.leftHip))
        avgKneeY == Mean(PresentYs(lm.rightKnee, lm.leftKnee))
        hipY == SmoothAcc(r.smoothedHipYRef, avgHipY, SMOOTHING_ALPHA_HIPS, CoordGrid)
        kneeY == SmoothAcc(r.smoothedKneeYRef, avgKneeY, SMOOTHING_ALPHA_HIPS, CoordGrid)
        kneeAngle == SmoothValue(r.smoothedKneeAngleRef, rawKneeAngle, SMOOTHING_ALPHA_KNEE, AngleGrid)
        effectiveKneeAngle == Coalesce(kneeAngle, rawKneeAngle)
        hipVerticalDiff == hipY - kneeY
        hipWidth == IF lm.rightHip.ok /\ lm.leftHip.ok
                    THEN Abs(lm.rightHip.x - lm.leftHip.x) ELSE Null
        kneeWidth == IF lm.rightKnee.ok /\ lm.leftKnee.ok
                     THEN Abs(lm.rightKnee.x - lm.leftKnee.x) ELSE Null
        baseHipWidth == Coalesce(r.standingHipWidthRef, hipWidth)
        \* kneeWidth / baseHipWidth >= MIN_KNEE_WIDTH_RATIO * 0.9
        kneesWideEnough == /\ baseHipWidth # Null /\ baseHipWidth > 0 /\ kneeWidth # Null
                           /\ kneeWidth * 1000 >= MIN_KNEE_WIDTH_RATIO * 9 * baseHipWidth
        kneesWideBottom == /\ kneesWideEnough /\ effectiveKneeAngle # Null
                           /\ effectiveKneeAngle <= FRONT_KNEE_ANGLE_MAX + 4
        standingHip == IF r.standingHipRef = Null THEN hipY ELSE r.standingHipRef
        standingHipWidth == IF r.standingHipWidthRef = Null /\ hipWidth # Null /\ hipWidth > 0
                            THEN hipWidth ELSE r.standingHipWidthRef
        depthFromTop == hipY - standingHip
        kneeAngleIndicatesStanding ==
            /\ effectiveKneeAngle # Null
            /\ effectiveKneeAngle >= STANDING_KNEE_ANGLE - STANDING_ANGLE_RELAXATION
        \* |depthFromTop| <= max(HIP_RETURN_TOLERANCE * 1.5, MIN_HIP_DELTA_FOR_REP * 0.35)
        hipReturn == Abs(depthFromTop) * 100
                        <= Max(HIP_RETURN_TOLERANCE * 150, MIN_HIP_DELTA_FOR_REP * 35)
        hipPositionIndicatesStanding == hipReturn \/ hipVerticalDiff <= 0
        kneeAngleIndicatesBottom ==
            /\ effectiveKneeAngle # Null
            /\ effectiveKneeAngle <= BOTTOM_KNEE_ANGLE + BOTTOM_ANGLE_RELAXATION
        \* repDepthThreshold, in ten-thousandths
        repDepthThreshold == MIN_HIP_DELTA_FOR_REP * REP_DEPTH_MARGIN
        depthSufficient == depthFromTop * 10 >= repDepthThreshold
        hipBelowKneeStrong ==
            hipVerticalDiff * 10 >= HIP_BELOW_KNEE_THRESHOLD * HIP_BELOW_THRESHOLD_MARGIN
    IN  [rawKneeAngle |-> rawKneeAngle,
         hipY |-> hipY,
         kneeY |-> kneeY,
         smoothedKneeAngle |-> SmoothAcc(r.smoothedKneeAngleRef, rawKneeAngle, SMOOTHING_ALPHA_KNEE, AngleGrid),
         effectiveKneeAngle |-> effectiveKneeAngle,
         hipWidth |-> hipWidth,
         standingHip |-> standingHip,
         standingHipWidth |-> standingHipWidth,
         repDepthThreshold |-> repDepthThreshold,
         hipBelowKneeStrong |-> hipBelowKneeStrong,
         isStanding |-> kneeAngleIndicatesStanding /\ hipPositionIndicatesStanding,
         bottomDetected |-> depthSufficient
                            /\ (kneeAngleIndicatesBottom \/ hipBelowKneeStrong \/ kneesWideBottom)]

MsgSquatLockRep == "Stand tall and lock the rep before the next drive."
MsgSquatBrace == "Brace, set your stance, and control the next descent."
MsgSquatDropInch == "Drop another inch so hips finish just below the knees."
MsgSquatGreatDepth == "Great depth. Stay tight and drive up through your heels."
MsgSquatDrive == "Drive through your heels and finish tall at the top."
MsgSquatControl == "Control the descent - hips back, knees tracking over toes."

\* the standing branch as it would be if one standing frame confirmed the posture
SquatStandingHasty(c, m, squatState, now) ==
    LET r == c.refs
        standingHold == Min(r.standingHoldFramesRef + 1, HOLD_FRAMES_CAP)
        c1 == [c EXCEPT !.refs.standingHoldFramesRef = standingHold,
                        !.refs.bottomHoldFramesRef = 0]
        credit == /\ squatState = "down"
                  /\ r.bottomHipRef # Null
                  /\ r.standingHipRef # Null
                  /\ (r.bottomHipRef - r.standingHipRef) * 10 >= m.repDepthThreshold
        c2 == IF credit
              THEN SetFeedbackMessage(CreditRep(c1, now), MsgSquatLockRep, Silent, now)
              ELSE IF squatState # "up"
                   THEN SetFeedbackMessage(c1, MsgSquatBrace, Silent, now)
                   ELSE c1
        r2 == c2.refs
    IN  IF standingHold >= 1
        THEN [c2 EXCEPT
                !.refs.standingHipWidthRef =
                    IF m.hipWidth # Null /\ m.hipWidth > 0
                    THEN (IF r2.standingHipWidthRef = Null THEN m.hipWidth
                          ELSE Min(r2.standingHipWidthRef, m.hipWidth))
                    ELSE @,
                !.refs.standingHipRef =
                    IF r2.standingHipRef = Null THEN m.hipY ELSE Min(r2.standingHipRef, m.hipY),
                !.refs.bottomHipRef = Null,
                !.phase.squatState = IF squatState # "up" THEN "up" ELSE @]
        ELSE c1

\* the branch taken on a standing frame (lines 1426-1462)
SquatStanding(c, m, squatState, now) ==
    LET r == c.refs
        standingHold == Min(r.standingHoldFramesRef + 1, HOLD_FRAMES_CAP)
        c1 == [c EXCEPT !.refs.standingHoldFramesRef = standingHold,
                        !.refs.bottomHoldFramesRef = 0]
        credit == /\ squatState = "down"
                  /\ r.bottomHipRef # Null
                  /\ r.standingHipRef # Null
                  /\ (r.bottomHipRef - r.standingHipRef) * 10 >= m.repDepthThreshold
        c2 == IF credit
              THEN SetFeedbackMessage(CreditRep(c1, now), MsgSquatLockRep, Silent, now)
              ELSE IF squatState # "up"
                   THEN SetFeedbackMessage(c1, MsgSquatBrace, Silent, now)
                   ELSE c1
        r2 == c2.refs
    IN  IF standingHold >= MIN_STANDING_HOLD_FRAMES
        THEN [c2 EXCEPT
                !.refs.standingHipWidthRef =
                    IF m.hipWidth # Null /\ m.hipWidth > 0
                    THEN (IF r2.standingHipWidthRef = Null THEN m.hipWidth
                          ELSE Min(r2.standingHipWidthRef, m.hipWidth))
                    ELSE @,
                !.refs.standingHipRef =
                    IF r2.standingHipRef = Null THEN m.hipY ELSE Min(r2.standingHipRef, m.hipY),
                !.refs.bottomHipRef = Null,
                !.phase.squatState = IF squatState # "up" THEN "up" ELSE @]
        ELSE c1

\* the moving branch as it would be if "down" were entered from "start" too
SquatMovingFromStart(c, m, squatState, now) ==
    LET r == c.refs
        bottomHold == IF m.bottomDetected THEN Min(r.bottomHoldFramesRef + 1, HOLD_FRAMES_CAP)
                      ELSE IF r.bottomHoldFramesRef > 0 THEN r.bottomHoldFramesRef - 1
                      ELSE r.bottomHoldFramesRef
        c1 == [c EXCEPT !.refs.standingHoldFramesRef = 0,
                        !.refs.bottomHoldFramesRef = bottomHold]
    IN  IF m.bottomDetected /\ bottomHold >= MIN_BOTTOM_HOLD_FRAMES /\ squatState # "down"
        THEN SetFeedbackMessage(
                [c1 EXCEPT !.refs.bottomHipRef = m.hipY, !.phase.squatState = "down"],
                IF ~m.hipBelowKneeStrong THEN MsgSquatDropInch ELSE MsgSquatGreatDepth,
                Immediate, now)
        ELSE IF squatState = "down"
             THEN SetFeedbackMessage(c1, MsgSquatDrive, NoOptions, now)
             ELSE SetFeedbackMessage(c1, MsgSquatControl, NoOptions, now)

\* the rest of analyzeSquat as it would be if the standing baseline followed
\* the hips on the frames that are not standing
SquatMovingRebasing(c, m, squatState, now) ==
    LET r == c.refs
        bottomHold == IF m.bottomDetected THEN Min(r.bottomHoldFramesRef + 1, HOLD_FRAMES_CAP)
                      ELSE IF r.bottomHoldFramesRef > 0 THEN r.bottomHoldFramesRef - 1
                      ELSE r.bottomHoldFramesRef
        c1 == [c EXCEPT !.refs.standingHoldFramesRef = 0,
                        !.refs.bottomHoldFramesRef = bottomHold,
                        !.refs.standingHipRef = m.hipY]
    IN  IF m.bottomDetected /\ bottomHold >= MIN_BOTTOM_HOLD_FRAMES /\ squatState = "up"
        THEN SetFeedbackMessage(
                [c1 EXCEPT !.refs.bottomHipRef = m.hipY, !.phase.squatState = "down"],
                IF ~m.hipBelowKneeStrong THEN MsgSquatDropInch ELSE MsgSquatGreatDepth,
                Immediate, now)
        ELSE IF squatState = "down"
             THEN SetFeedbackMessage(c1, MsgSquatDrive, NoOptions, now)
             ELSE SetFeedbackMessage(c1, MsgSquatControl, NoOptions, now)

\* the rest of analyzeSquat as it would be if the first frame at the bottom
\* began the descent
SquatMovingUnheld(c, m, squatState, now) ==
    LET r == c.refs
        bottomHold == IF m.bottomDetected THEN Min(r.bottomHoldFramesRef + 1, HOLD_FRAMES_CAP)
                      ELSE IF r.bottomHoldFramesRef > 0 THEN r.bottomHoldFramesRef - 1
                      ELSE r.bottomHoldFramesRef
        c1 == [c EXCEPT !.refs.standingHoldFramesRef = 0,
                        !.refs.bottomHoldFramesRef = bottomHold]
    IN  IF m.bottomDetected /\ squatState = "up"
        THEN SetFeedbackMessage(
                [c1 EXCEPT !.refs.bottomHipRef = m.hipY, !.phase.squatState = "down"],
                IF ~m.hipBelowKneeStrong THEN MsgSquatDropInch ELSE MsgSquatGreatDepth,
                Immediate, now)
        ELSE IF squatState = "down"
             THEN SetFeedbackMessage(c1, MsgSquatDrive, NoOptions, now)
             ELSE SetFeedbackMessage(c1, MsgSquatControl, NoOptions, now)

\* the rest of analyzeSquat as it would be if every frame that is not standing
\* counted as the bottom of the squat
SquatMovingEager(c, m, squatState, now) ==
    LET r == c.refs
        bottomHold == IF TRUE THEN Min(r.bottomHoldFramesRef + 1, HOLD_FRAMES_CAP)
                      ELSE IF r.bottomHoldFramesRef > 0 THEN r.bottomHoldFramesRef - 1
                      ELSE r.bottomHoldFramesRef
        c1 == [c EXCEPT !.refs.standingHoldFramesRef = 0,
                        !.refs.bottomHoldFramesRef = bottomHold]
    IN  IF bottomHold >= MIN_BOTTOM_HOLD_FRAMES /\ squatState = "up"
        THEN SetFeedbackMessage(
                [c1 EXCEPT !.refs.bottomHipRef = m.hipY, !.phase.squatState = "down"],
                IF ~m.hipBelowKneeStrong THEN MsgSquatDropInch ELSE MsgSquatGreatDepth,
                Immediate, now)
        ELSE IF squatState = "down"
             THEN SetFeedbackMessage(c1, MsgSquatDrive, NoOptions, now)
             ELSE SetFeedbackMessage(c1, MsgSquatControl, NoOptions, now)

\* the rest of analyzeSquat, on a frame that is not standing (lines 1464-1491)
SquatMoving(c, m, squatState, now) ==
    LET r == c.refs
        bottomHold == IF m.bottomDetected THEN Min(r.bottomHoldFramesRef + 1, HOLD_FRAMES_CAP)
                      ELSE IF r.bottomHoldFramesRef > 0 THEN r.bottomHoldFramesRef - 1
                      ELSE r.bottomHoldFramesRef
        c1 == [c EXCEPT !.refs.standingHoldFramesRef = 0,
                        !.refs.bottomHoldFramesRef = bottomHold]
    IN  IF m.bottomDetected /\ bottomHold >= MIN_BOTTOM_HOLD_FRAMES /\ squatState = "up"
        THEN SetFeedbackMessage(
                [c1 EXCEPT !.refs.bottomHipRef = m.hipY, !.phase.squatState = "down"],
                IF ~m.hipBelowKneeStrong THEN MsgSquatDropInch ELSE MsgSquatGreatDepth,
                Immediate, now)
        ELSE IF squatState = "down"
             THEN SetFeedbackMessage(c1, MsgSquatDrive, NoOptions, now)
             ELSE SetFeedbackMessage(c1, MsgSquatControl, NoOptions, now)

\* analyzeSquat(landmarks)
AnalyzeSquat(c, lm, squatState, now) ==
    IF ~lm.rightHip.ok /\ ~lm.leftHip.ok THEN c
    ELSE IF ~lm.rightKnee.ok /\ ~lm.leftKnee.ok THEN c
    ELSE LET m == SquatMeasure(c.refs, lm)
             c1 == [c EXCEPT !.refs.smoothedHipYRef = m.hipY,
                             !.refs.smoothedKneeYRef = m.kneeY,
                             !.refs.smoothedKneeAngleRef = m.smoothedKneeAngle,
                             !.refs.standingHipRef = m.standingHip,
                             !.refs.standingHipWidthRef = m.standingHipWidth]
         IN  IF m.isStanding THEN SquatStanding(c1, m, squatState, now)
                             ELSE SquatMoving(c1, m, squatState, now)

----------------------------------------------------------------------------
(* analyzePushup(landmarks), reading pushupState from its closure.          *)

MsgPushupLower == "Lower until chest hovers above the floor."
MsgPushupLockout == "Strong lockout - reset your brace for the next rep."
MsgPushupNoCount == "Rep didn't count - sink a bit deeper before pressing up."
MsgPushupBend == "Bend elbows more to reach full depth before pressing."

\* the lockout branch as it would be if it left the phase alone
PushupTopStaying(c, pushupState, now) ==
    LET c1 == IF pushupState = "lowering"
              THEN (IF c.refs.pushupBottomSeenRef
                    THEN SetFeedbackMessage(CreditRep(c, now), MsgPushupLockout, Silent, now)
                    ELSE SetFeedbackMessage(c, MsgPushupNoCount, Immediate, now))
              ELSE c
    IN  [c1 EXCEPT !.refs.pushupBottomSeenRef = FALSE]

\* the lockout branch as it would be if it left pushupBottomSeenRef alone
PushupTopSticky(c, pushupState, now) ==
    LET c1 == IF pushupState = "lowering"
              THEN (IF c.refs.pushupBottomSeenRef
                    THEN SetFeedbackMessage(CreditRep(c, now), MsgPushupLockout, Silent, now)
                    ELSE SetFeedbackMessage(c, MsgPushupNoCount, Immediate, now))
              ELSE c
    IN  [c1 EXCEPT !.phase.pushupState = IF pushupState # "press" THEN "press" ELSE @]

\* the lockout branch (elbowAngle >= PUSHUP_TOP_ANGLE, lines 1517-1537)
PushupTop(c, pushupState, now) ==
    LET c1 == IF pushupState = "lowering"
              THEN (IF c.refs.pushupBottomSeenRef
                    THEN SetFeedbackMessage(CreditRep(c, now), MsgPushupLockout, Silent, now)
                    ELSE SetFeedbackMessage(c, MsgPushupNoCount, Immediate, now))
              ELSE c
    IN  [c1 EXCEPT !.refs.pushupBottomSeenRef = FALSE,
                   !.phase.pushupState = IF pushupState # "press" THEN "press" ELSE @]

\* analyzePushup as it would be if its guard did not ask for the wrist
AnalyzePushupWristless(c, lm, pushupState, now) ==
    IF ~lm.shoulder.ok \/ ~lm.elbow.ok THEN c
    ELSE LET elbowAngle == lm.elbowDeg IN
         IF elbowAngle <= PUSHUP_BOTTOM_ANGLE
         THEN LET c1 == [c EXCEPT !.refs.pushupBottomSeenRef = TRUE]
              IN  IF pushupState # "lowering"
                  THEN SetFeedbackMessage([c1 EXCEPT !.phase.pushupState = "lowering"],
                                          MsgPushupLower, Immediate, now)
                  ELSE c1
         ELSE IF elbowAngle >= PUSHUP_TOP_ANGLE
         THEN PushupTop(c, pushupState, now)
         ELSE LET c1 == IF /\ pushupState = "lowering"
                           /\ ~c.refs.pushupBottomSeenRef
                           /\ elbowAngle > PUSHUP_BOTTOM_ANGLE + 5
                        THEN SetFeedbackMessage(c, MsgPushupBend, NoOptions, now)
                        ELSE c
              IN  [c1 EXCEPT !.phase.pushupState = IF pushupState # "setup" THEN "setup" ELSE @]

\* analyzePushup(landmarks); lm.elbowDeg is angleBetween(shoulder, elbow, wrist)
AnalyzePushup(c, lm, pushupState, now) ==
    IF ~lm.shoulder.ok \/ ~lm.elbow.ok \/ ~lm.wrist.ok THEN c
    ELSE LET elbowAngle == lm.elbowDeg IN
         IF elbowAngle <= PUSHUP_BOTTOM_ANGLE
         THEN LET c1 == [c EXCEPT !.refs.pushupBottomSeenRef = TRUE]
              IN  IF pushupState # "lowering"
                  THEN SetFeedbackMessage([c1 EXCEPT !.phase.pushupState = "lowering"],
                                          MsgPushupLower, Immediate, now)
                  ELSE c1
         ELSE IF elbowAngle >= PUSHUP_TOP_ANGLE
         THEN PushupTop(c, pushupState, now)
         ELSE LET c1 == IF /\ pushupState = "lowering"
                           /\ ~c.refs.pushupBottomSeenRef
                           /\ elbowAngle > PUSHUP_BOTTOM_ANGLE + 5
                        THEN SetFeedbackMessage(c, MsgPushupBend, NoOptions, now)
                        ELSE c
              IN  [c1 EXCEPT !.phase.pushupState = IF pushupState # "setup" THEN "setup" ELSE @]

----------------------------------------------------------------------------
(* analyzePullup(landmarks), reading pullupState from its closure.          *)

MsgPullupHang == "Full hang - engage lats before the next pull."
MsgPullupNice == "Nice pull - own the top before lowering."
MsgPullupNoCount == "Rep didn't count - hit a full hang before pulling up."
MsgPullupReset == "Reset to a full hang so the rep will count."

\* the top branch as it would be if it left pullupHangSeenRef alone
PullupTopSticky(c, pullupState, now) ==
    LET c1 == IF pullupState = "pull"
              THEN (IF c.refs.pullupHangSeenRef
                    THEN SetFeedbackMessage(CreditRep(c, now), MsgPullupNice, Silent, now)
                    ELSE SetFeedbackMessage(c, MsgPullupNoCount, Immediate, now))
              ELSE c
    IN  [c1 EXCEPT !.phase.pullupState = IF pullupState # "top" THEN "top" ELSE @]

\* the top branch (nose at or above the shoulder line + offset, lines 1575-1593)
PullupTop(c, pullupState, now) ==
    LET c1 == IF pullupState = "pull"
              THEN (IF c.refs.pullupHangSeenRef
                    THEN SetFeedbackMessage(CreditRep(c, now), MsgPullupNice, Silent, now)
                    ELSE SetFeedbackMessage(c, MsgPullupNoCount, Immediate, now))
              ELSE c
    IN  [c1 EXCEPT !.refs.pullupHangSeenRef = FALSE,
                   !.phase.pullupState = IF pullupState # "top" THEN "top" ELSE @]

\* analyzePullup(landmarks).  The averages of two y values are kept doubled.
AnalyzePullup(c, lm, pullupState, now) ==
    IF ~lm.leftWrist.ok \/ ~lm.rightWrist.ok \/ ~lm.leftShoulder.ok \/ ~lm.rightShoulder.ok
       \/ ~lm.nose.ok
    THEN c
    ELSE LET shoulderY2 == lm.leftShoulder.y + lm.rightShoulder.y
             wristY2 == lm.leftWrist.y + lm.rightWrist.y
             hangDepth2 == wristY2 - shoulderY2
         IN
         IF hangDepth2 >= 2 * PULLUP_BOTTOM_WRIST_OFFSET
         THEN LET c1 == [c EXCEPT !.refs.pullupHangSeenRef = TRUE]
              IN  IF pullupState # "hang"
                  THEN SetFeedbackMessage([c1 EXCEPT !.phase.pullupState = "hang"],
                                          MsgPullupHang, Immediate, now)
                  ELSE c1
         ELSE IF 2 * lm.nose.y <= shoulderY2 + 2 * PULLUP_TOP_NOSE_OFFSET
         THEN PullupTop(c, pullupState, now)
         ELSE IF pullupState # "pull"
         THEN [c EXCEPT !.phase.pullupState = "pull"]
         \* hangDepth < PULLUP_BOTTOM_WRIST_OFFSET * 0.6
         ELSE IF ~c.refs.pullupHangSeenRef /\ hangDepth2 * 10 < 2 * PULLUP_BOTTOM_WRIST_OFFSET * 6
         THEN SetFeedbackMessage(c, MsgPullupReset, NoOptions, now)
         ELSE c

----------------------------------------------------------------------------
(* analyzeJumpingJack(landmarks), reading jackState from its closure.       *)
(* Thresholds that the source forms as a product with a ratio are kept      *)
(* multiplied by 100 (names ending in 100).  jackDebugCounterRef, which     *)
(* only paces the development build's console.debug, is left out.           *)

\* the integer square root of n >= 0, between lo and hi
RECURSIVE ISqrtIn(_, _, _)
ISqrtIn(n, lo, hi) ==
    IF lo >= hi THEN lo
    ELSE LET mid == (lo + hi + 1) \div 2
         IN  IF mid * mid <= n THEN ISqrtIn(n, mid, hi) ELSE ISqrtIn(n, lo, mid - 1)

\* distance(a, b) = Math.hypot(dx, dy), to the nearest unit
Distance(a, b) ==
    LET dx == Abs(a.x - b.x)
        dy == Abs(a.y - b.y)
    IN  IF dy = 0 THEN dx
        ELSE IF dx = 0 THEN dy
        ELSE LET n == dx * dx + dy * dy
                 root == ISqrtIn(n, 0, dx + dy)
             IN  IF n - root * root > root THEN root + 1 ELSE root

MsgJackBorderBoth == "Rep counted - reach higher and step wider for cleaner reps."
MsgJackBorderArms == "Rep counted - try raising arms a little higher."
MsgJackBorderLegs == "Rep counted - jump feet a little wider."
MsgJackBorderSmooth == "Rep counted - keep the motion smooth."
MsgJackCounted == "Rep counted - stay tall and control the landing."
MsgJackStartNeutral == "Start neutral so reps count - feet together, arms down."
MsgJackFinishReset == "Finish the reset before starting the next rep."
MsgJackArmsUp == "Arms not overhead - reach all the way up."
MsgJackFeetWide == "Feet not wide enough - jump out farther."
MsgJackGoBigger == "Go bigger - reach overhead and jump feet wider."
MsgJackFeetTogether == "Bring your feet together to finish the rep."
MsgJackLowerArms == "Lower your arms to your sides before the next rep."
MsgJackArmsClose == "Keep arms close to your sides at the bottom."

\* what analyzeJumpingJack computes from a frame and the refs before it branches
JackMeasure(r, lm, now) ==
    LET ankleGap == Distance(lm.leftAnkle, lm.rightAnkle)
        wristGap == Distance(lm.leftWrist, lm.rightWrist)
        shoulderWidthX == Max(Abs(lm.leftShoulder.x - lm.rightShoulder.x), 1)
        hipWidthX == IF lm.leftHip.ok /\ lm.rightHip.ok
                     THEN Max(Abs(lm.leftHip.x - lm.rightHip.x), 1)
                     ELSE shoulderWidthX
        neutralLegBaseline100 ==
            IF r.jackNeutralAnkleGapRef # Null THEN r.jackNeutralAnkleGapRef * 100
            ELSE Max(JACK_MIN_NEUTRAL_ANKLE_GAP * 100, hipWidthX * JACK_DEFAULT_NEUTRAL_LEG_RATIO)
        neutralWristBaseline100 ==
            IF r.jackNeutralWristGapRef # Null THEN r.jackNeutralWristGapRef * 100
            ELSE Max(JACK_MIN_NEUTRAL_WRIST_GAP * 100,
                     shoulderWidthX * JACK_DEFAULT_NEUTRAL_WRIST_RATIO)
        legWideThreshold100 ==
            Max(neutralLegBaseline100 + JACK_WIDE_LEG_EXTRA * 100,
                neutralLegBaseline100 + hipWidthX * JACK_WIDE_LEG_RATIO)
        legCenterThreshold100 ==
            Min(neutralLegBaseline100 + JACK_CENTER_LEG_EXTRA * 100,
                neutralLegBaseline100 + hipWidthX * JACK_CENTER_LEG_RATIO)
        leftArmDelta == lm.leftShoulder.y - lm.leftWrist.y
        rightArmDelta == lm.rightShoulder.y - lm.rightWrist.y
        armsOverhead == /\ leftArmDelta >= JACK_ARM_OVERHEAD_DELTA
                        /\ rightArmDelta >= JACK_ARM_OVERHEAD_DELTA
        armsDown == /\ leftArmDelta <= JACK_ARM_DOWN_DELTA
                    /\ rightArmDelta <= JACK_ARM_DOWN_DELTA
        armsAlmostOverhead ==
            /\ leftArmDelta * 100 >= JACK_ARM_OVERHEAD_DELTA * JACK_ALMOST_ARM_RATIO
            /\ rightArmDelta * 100 >= JACK_ARM_OVERHEAD_DELTA * JACK_ALMOST_ARM_RATIO
        armsAlmostDown ==
            /\ leftArmDelta * 100 <= JACK_ARM_DOWN_DELTA * JACK_ALMOST_ARM_RATIO
            /\ rightArmDelta * 100 <= JACK_ARM_DOWN_DELTA * JACK_ALMOST_ARM_RATIO
        legsWideEnough == ankleGap * 100 >= legWideThreshold100
        legsAlmostWide == ankleGap * 10000 >= legWideThreshold100 * JACK_ALMOST_LEG_RATIO
        legsTogetherEnough == ankleGap * 100 <= legCenterThreshold100
        legsAlmostTogether ==
            ankleGap * 10000 <= legCenterThreshold100 * JACK_CENTER_RETURN_RATIO
        \* wristGap <= neutralWristBaseline * 1.2
        wristsAtSides == wristGap * 1000 <= neutralWristBaseline100 * 12
        widePoseStrong == armsOverhead /\ legsWideEnough
    IN  [ankleGap |-> ankleGap,
         wristGap |-> wristGap,
         armsOverhead |-> armsOverhead,
         armsDown |-> armsDown,
         armsAlmostOverhead |-> armsAlmostOverhead,
         armsAlmostDown |-> armsAlmostDown,
         legsWideEnough |-> legsWideEnough,
         legsAlmostWide |-> legsAlmostWide,
         legsTogetherEnough |-> legsTogetherEnough,
         legsAlmostTogether |-> legsAlmostTogether,
         wristsAtSides |-> wristsAtSides,
         canGiveFeedback |-> now - r.lastJackFeedbackRef > JACK_FEEDBACK_COOLDOWN_MS,
         widePoseStrong |-> widePoseStrong,
         widePoseBorderline |->
            /\ ~widePoseStrong
            /\ \/ armsOverhead /\ legsAlmostWide
               \/ armsAlmostOverhead /\ legsWideEnough
               \/ armsAlmostOverhead /\ legsAlmostWide]

\* the wide branch as it would be if it credited without a neutral baseline
JackWideUncalibrated(c, m, jackState, now) ==
    LET c1 == IF c.refs.jackCenterReadyRef
              THEN SetFeedbackMessage(CreditRep(c, now), MsgJackCounted, Silent, now)
              ELSE c
    IN  [c1 EXCEPT !.refs.jackCenterReadyRef = FALSE,
                   !.phase.jackState = IF jackState # "wide" THEN "wide" ELSE @,
                   !.refs.lastJackFeedbackRef = now]

\* the wide branch as it would be if it left jackCenterReadyRef alone
JackWideRearmed(c, m, jackState, now) ==
    LET wasReady == c.refs.jackCenterReadyRef
        hasNeutralBaseline == c.refs.jackNeutralAnkleGapRef # Null
        borderlineMessage ==
            IF ~m.armsOverhead /\ ~m.legsWideEnough THEN MsgJackBorderBoth
            ELSE IF ~m.armsOverhead THEN MsgJackBorderArms
            ELSE IF ~m.legsWideEnough THEN MsgJackBorderLegs
            ELSE MsgJackBorderSmooth
        c1 == IF wasReady /\ hasNeutralBaseline
              THEN (IF m.widePoseBorderline /\ m.canGiveFeedback
                    THEN SetFeedbackMessage(CreditRep(c, now), borderlineMessage, NoOptions, now)
                    ELSE SetFeedbackMessage(CreditRep(c, now), MsgJackCounted, Silent, now))
              ELSE IF wasReady /\ ~hasNeutralBaseline /\ m.canGiveFeedback
              THEN SetFeedbackMessage(c, MsgJackStartNeutral, Immediate, now)
              ELSE IF ~wasReady /\ m.canGiveFeedback
              THEN SetFeedbackMessage(c, MsgJackFinishReset, Immediate, now)
              ELSE c
    IN  [c1 EXCEPT !.phase.jackState = IF jackState # "wide" THEN "wide" ELSE @,
                   !.refs.lastJackFeedbackRef = now]

\* the wide branch as it would be if a borderline pose earned no credit
JackWideStrict(c, m, jackState, now) ==
    LET wasReady == c.refs.jackCenterReadyRef
        hasNeutralBaseline == c.refs.jackNeutralAnkleGapRef # Null
        c1 == IF wasReady /\ hasNeutralBaseline /\ m.widePoseStrong
              THEN SetFeedbackMessage(CreditRep(c, now), MsgJackCounted, Silent, now)
              ELSE IF wasReady /\ ~hasNeutralBaseline /\ m.canGiveFeedback
              THEN SetFeedbackMessage(c, MsgJackStartNeutral, Immediate, now)
              ELSE IF ~wasReady /\ m.canGiveFeedback
              THEN SetFeedbackMessage(c, MsgJackFinishReset, Immediate, now)
              ELSE c
    IN  [c1 EXCEPT !.refs.jackCenterReadyRef = FALSE,
                   !.phase.jackState = IF jackState # "wide" THEN "wide" ELSE @,
                   !.refs.lastJackFeedbackRef = now]

\* the wide branch (lines 1675-1713)
JackWide(c, m, jackState, now) ==
    LET wasReady == c.refs.jackCenterReadyRef
        hasNeutralBaseline == c.refs.jackNeutralAnkleGapRef # Null
        borderlineMessage ==
            IF ~m.armsOverhead /\ ~m.legsWideEnough THEN MsgJackBorderBoth
            ELSE IF ~m.armsOverhead THEN MsgJackBorderArms
            ELSE IF ~m.legsWideEnough THEN MsgJackBorderLegs
            ELSE MsgJackBorderSmooth
        c1 == IF wasReady /\ hasNeutralBaseline
              THEN (IF m.widePoseBorderline /\ m.canGiveFeedback
                    THEN SetFeedbackMessage(CreditRep(c, now), borderlineMessage, NoOptions, now)
                    ELSE SetFeedbackMessage(CreditRep(c, now), MsgJackCounted, Silent, now))
              ELSE IF wasReady /\ ~hasNeutralBaseline /\ m.canGiveFeedback
              THEN SetFeedbackMessage(c, MsgJackStartNeutral, Immediate, now)
              ELSE IF ~wasReady /\ m.canGiveFeedback
              THEN SetFeedbackMessage(c, MsgJackFinishReset, Immediate, now)
              ELSE c
    IN  [c1 EXCEPT !.refs.jackCenterReadyRef = FALSE,
                   !.phase.jackState = IF jackState # "wide" THEN "wide" ELSE @,
                   !.refs.lastJackFeedbackRef = now]

\* the center branch (lines 1715-1732)
JackCenter(c, m, jackState, now) ==
    LET r == c.refs
    IN  [c EXCEPT !.refs.jackCenterReadyRef = TRUE,
                  !.refs.jackNeutralAnkleGapRef =
                      IF r.jackNeutralAnkleGapRef = Null THEN m.ankleGap
                      ELSE RoundDiv(r.jackNeutralAnkleGapRef * 65 + m.ankleGap * 35, 100),
                  !.refs.jackNeutralWristGapRef =
                      IF r.jackNeutralWristGapRef = Null THEN m.wristGap
                      ELSE RoundDiv(r.jackNeutralWristGapRef * 65 + m.wristGap * 35, 100),
                  !.phase.jackState = IF jackState # "center" THEN "center" ELSE @,
                  !.refs.lastJackFeedbackRef = now]

\* a hint as it would be if it left lastJackFeedbackRef alone
JackHintUnstamped(c, message, now) ==
    SetFeedbackMessage(c, message, Immediate, now)

\* a changed or unchanged hint, stamped with the time it was given
JackHint(c, message, now) ==
    [SetFeedbackMessage(c, message, Immediate, now) EXCEPT !.refs.lastJackFeedbackRef = now]

\* the corrective hints in between (lines 1734-1758)
JackBetween(c, m, jackState, now) ==
    IF ~m.canGiveFeedback THEN c
    ELSE IF c.refs.jackCenterReadyRef /\ (m.legsAlmostWide \/ m.armsAlmostOverhead)
    THEN (IF ~m.armsOverhead /\ m.legsWideEnough THEN JackHint(c, MsgJackArmsUp, now)
          ELSE IF m.armsOverhead /\ ~m.legsWideEnough THEN JackHint(c, MsgJackFeetWide, now)
          ELSE IF ~m.armsOverhead /\ ~m.legsWideEnough THEN JackHint(c, MsgJackGoBigger, now)
          ELSE c)
    ELSE IF /\ ~c.refs.jackCenterReadyRef /\ jackState = "wide"
            /\ (m.legsAlmostTogether \/ m.armsAlmostDown)
    THEN (IF ~m.legsTogetherEnough /\ m.legsAlmostTogether
          THEN JackHint(c, MsgJackFeetTogether, now)
          ELSE IF ~m.armsDown /\ m.armsAlmostDown THEN JackHint(c, MsgJackLowerArms, now)
          ELSE IF ~m.wristsAtSides /\ m.armsAlmostDown THEN JackHint(c, MsgJackArmsClose, now)
          ELSE c)
    ELSE c

\* analyzeJumpingJack(landmarks)
AnalyzeJumpingJack(c, lm, jackState, now) ==
    IF \/ ~lm.leftAnkle.ok \/ ~lm.rightAnkle.ok \/ ~lm.leftWrist.ok \/ ~lm.rightWrist.ok
       \/ ~lm.leftShoulder.ok \/ ~lm.rightShoulder.ok
    THEN c
    ELSE LET m == JackMeasure(c.refs, lm, now)
         IN  IF m.widePoseStrong \/ m.widePoseBorderline THEN JackWide(c, m, jackState, now)
             ELSE IF m.armsDown /\ m.legsTogetherEnough /\ m.wristsAtSides
             THEN JackCenter(c, m, jackState, now)
             ELSE JackBetween(c, m, jackState, now)

----------------------------------------------------------------------------
(* analyzePlank(landmarks, timestamp), reading plankState from its closure. *)

MsgPlankPaused == "Timer paused - drop hips to shoulder height before holding."
MsgPlankGetInto == "Get into a straight plank before the timer starts."
MsgPlankStrong == "Strong plank - stay long through your spine and keep breathing."
MsgPlankPress == "Press the floor away and lift hips in line with shoulders."
MsgPlankReset == "Reset the plank - squeeze glutes and stack ears over shoulders."

\* the end of a hold as it would be if plankLastTimestampRef were kept
PlankEndHoldStamped(c) ==
    [c EXCEPT !.refs.plankHoldActiveRef = FALSE,
              !.refs.plankHoldMsRef = 0,
              !.refs.lastPlankBroadcastRef = 0,
              !.plankHoldMs = 0,
              !.phase.plankState = "setup"]

\* the end of a hold as it would be without setPlankHoldMs(0)
PlankEndHoldUnpublished(c) ==
    [c EXCEPT !.refs.plankHoldActiveRef = FALSE,
              !.refs.plankLastTimestampRef = Null,
              !.refs.plankHoldMsRef = 0,
              !.refs.lastPlankBroadcastRef = 0,
              !.phase.plankState = "setup"]

\* the four assignments that end a hold, with setPlankHoldMs(0) and setPlankState("setup")
PlankEndHold(c) ==
    [c EXCEPT !.refs.plankHoldActiveRef = FALSE,
              !.refs.plankLastTimestampRef = Null,
              !.refs.plankHoldMsRef = 0,
              !.refs.lastPlankBroadcastRef = 0,
              !.plankHoldMs = 0,
              !.phase.plankState = "setup"]

\* the near-standing branch as it would be if the first near-standing frame
\* broke the hold
PlankNearStandingHasty(c, plankState, now) ==
    LET standingFrames == Min(c.refs.plankStandingFramesRef + 1, PLANK_STANDING_CAP)
        c1 == [c EXCEPT !.refs.plankStandingFramesRef = standingFrames]
    IN  IF c1.refs.plankHoldActiveRef
        THEN SetFeedbackMessage(PlankEndHold(c1), MsgPlankPaused, Immediate, now)
        ELSE IF plankState # "setup"
        THEN SetFeedbackMessage([c1 EXCEPT !.phase.plankState = "setup"],
                                MsgPlankGetInto, NoOptions, now)
        ELSE c1

\* the near-standing branch (lines 1814-1831)
PlankNearStanding(c, plankState, now) ==
    LET standingFrames == Min(c.refs.plankStandingFramesRef + 1, PLANK_STANDING_CAP)
        c1 == [c EXCEPT !.refs.plankStandingFramesRef = standingFrames]
    IN  IF standingFrames >= PLANK_STANDING_GRACE_FRAMES
        THEN (IF c1.refs.plankHoldActiveRef
              THEN SetFeedbackMessage(PlankEndHold(c1), MsgPlankPaused, Immediate, now)
              ELSE IF plankState # "setup"
              THEN SetFeedbackMessage([c1 EXCEPT !.phase.plankState = "setup"],
                                      MsgPlankGetInto, NoOptions, now)
              ELSE c1)
        ELSE c1

\* the strong-angle branch as it would be if it dropped every delta shorter
\* than PLANK_TIMER_UPDATE_INTERVAL_MS
PlankStrongCoarse(c, plankState, timestamp, now) ==
    LET c1 == [c EXCEPT !.refs.plankLowFramesRef = Max(@ - 1, 0)]
        r == c1.refs
    IN  IF ~r.plankHoldActiveRef
        THEN LET c2 == [c1 EXCEPT !.refs.plankHoldActiveRef = TRUE,
                                  !.refs.plankLastTimestampRef = timestamp,
                                  !.refs.plankHoldMsRef = 0,
                                  !.refs.lastPlankBroadcastRef = 0,
                                  !.phase.plankState = IF plankState # "hold" THEN "hold" ELSE @]
             IN  [SetFeedbackMessage(c2, MsgPlankStrong, Silent, now) EXCEPT !.plankHoldMs = 0]
        ELSE IF r.plankLastTimestampRef # Null
        THEN LET delta == timestamp - r.plankLastTimestampRef
                 holdMs == r.plankHoldMsRef + delta
                 c2 == IF delta >= PLANK_TIMER_UPDATE_INTERVAL_MS
                       THEN [c1 EXCEPT !.refs.plankHoldMsRef = holdMs,
                                       !.refs.lastPlankBroadcastRef = holdMs,
                                       !.plankHoldMs = holdMs]
                       ELSE c1
             IN  [c2 EXCEPT !.refs.plankLastTimestampRef = timestamp]
        ELSE c1

\* the strong-angle branch (lines 1840-1871)
PlankStrong(c, plankState, timestamp, now) ==
    LET c1 == [c EXCEPT !.refs.plankLowFramesRef = Max(@ - 1, 0)]
        r == c1.refs
    IN  IF ~r.plankHoldActiveRef
        THEN LET c2 == [c1 EXCEPT !.refs.plankHoldActiveRef = TRUE,
                                  !.refs.plankLastTimestampRef = timestamp,
                                  !.refs.plankHoldMsRef = 0,
                                  !.refs.lastPlankBroadcastRef = 0,
                                  !.phase.plankState = IF plankState # "hold" THEN "hold" ELSE @]
             IN  [SetFeedbackMessage(c2, MsgPlankStrong, Silent, now) EXCEPT !.plankHoldMs = 0]
        ELSE IF r.plankLastTimestampRef # Null
        THEN LET delta == timestamp - r.plankLastTimestampRef
                 holdMs == r.plankHoldMsRef + delta
                 broadcast == \/ holdMs - r.lastPlankBroadcastRef >= PLANK_TIMER_UPDATE_INTERVAL_MS
                              \/ holdMs < r.lastPlankBroadcastRef
                 c2 == IF delta > 0
                       THEN [c1 EXCEPT !.refs.plankHoldMsRef = holdMs,
                                       !.refs.lastPlankBroadcastRef = IF broadcast THEN holdMs ELSE @,
                                       !.plankHoldMs = IF broadcast THEN holdMs ELSE @]
                       ELSE c1
             IN  [c2 EXCEPT !.refs.plankLastTimestampRef = timestamp]
        ELSE c1

\* the low-angle branches as they would be if the hold ended one frame later
PlankLowLate(c, bodyAngle, plankState, now) ==
    LET lowFrames == c.refs.plankLowFramesRef + 1
        c1 == [c EXCEPT !.refs.plankLowFramesRef = lowFrames,
                        !.phase.plankState = IF plankState # "adjust" THEN "adjust" ELSE @]
    IN  IF bodyAngle >= PLANK_MIN_ANGLE
        THEN (IF lowFrames >= PLANK_WARN_FRAMES
              THEN SetFeedbackMessage(c1, MsgPlankPress,
                       [NoOptions EXCEPT !.immediate = lowFrames >= PLANK_STRICT_FRAMES], now)
              ELSE c1)
        ELSE LET c2 == IF lowFrames >= PLANK_WARN_FRAMES
                       THEN SetFeedbackMessage(c1, MsgPlankReset, Immediate, now)
                       ELSE c1
             IN  IF c2.refs.plankHoldActiveRef /\ lowFrames > PLANK_STRICT_FRAMES
                 THEN PlankEndHold(c2)
                 ELSE c2

\* the low-angle branches (lines 1873-1903)
PlankLow(c, bodyAngle, plankState, now) ==
    LET lowFrames == c.refs.plankLowFramesRef + 1
        c1 == [c EXCEPT !.refs.plankLowFramesRef = lowFrames,
                        !.phase.plankState = IF plankState # "adjust" THEN "adjust" ELSE @]
    IN  IF bodyAngle >= PLANK_MIN_ANGLE
        THEN (IF lowFrames >= PLANK_WARN_FRAMES
              THEN SetFeedbackMessage(c1, MsgPlankPress,
                       [NoOptions EXCEPT !.immediate = lowFrames >= PLANK_STRICT_FRAMES], now)
              ELSE c1)
        ELSE LET c2 == IF lowFrames >= PLANK_WARN_FRAMES
                       THEN SetFeedbackMessage(c1, MsgPlankReset, Immediate, now)
                       ELSE c1
             IN  IF c2.refs.plankHoldActiveRef /\ lowFrames >= PLANK_STRICT_FRAMES
                 THEN PlankEndHold(c2)
                 ELSE c2

\* the branch analyzePlank takes on a frame: "skipped" (a joint is missing),
\* "standing" (near-standing), "strong", "adjust" or "low"
PlankBranch(r, lm) ==
    IF ~lm.shoulder.ok \/ ~lm.hip.ok \/ ~lm.ankle.ok THEN "skipped"
    ELSE IF \/ Abs(lm.shoulder.y - lm.hip.y) > PLANK_MAX_SHOULDER_HIP_DELTA
            \/ Abs(lm.hip.y - lm.ankle.y) > PLANK_MAX_HIP_ANKLE_DELTA
    THEN "standing"
    ELSE LET bodyAngle == SmoothAcc(r.plankAngleRef, lm.bodyDeg, SMOOTHING_ALPHA_PLANK, PlankGrid)
         IN  IF bodyAngle >= PLANK_STRONG_ANGLE THEN "strong"
             ELSE IF bodyAngle >= PLANK_MIN_ANGLE THEN "adjust"
             ELSE "low"

\* analyzePlank(landmarks, timestamp); lm.bodyDeg is angleBetween(shoulder, hip, ankle)
AnalyzePlank(c, lm, plankState, timestamp, now) ==
    LET branch == PlankBranch(c.refs, lm)
    IN  IF branch = "skipped" THEN c
        ELSE IF branch = "standing" THEN PlankNearStanding(c, plankState, now)
        ELSE LET bodyAngle == SmoothAcc(c.refs.plankAngleRef, lm.bodyDeg, SMOOTHING_ALPHA_PLANK, PlankGrid)
                 c1 == [c EXCEPT !.refs.plankStandingFramesRef = 0,
                                 !.refs.plankAngleRef = bodyAngle]
             IN  IF branch = "strong" THEN PlankStrong(c1, plankState, timestamp, now)
                 ELSE PlankLow(c1, bodyAngle, plankState, now)

----------------------------------------------------------------------------
(* The frames the detector is taken to return.                              *)

\* hip heights: standing tall, and in a deep squat
HipYStanding == 500
HipYDeep == 600
\* the height of the knees
KneeLineY == 560
\* knee angles: a deep squat, a half squat, standing
KneeDegDeep == 80
KneeDegHalf == 140
KneeDegStanding == 170
\* half the distance between the hips
HipHalfWidth == 50
\* half the distance between the knees: knees caving in, knees tracking out
KneeHalfWidthNarrow == 30
KneeHalfWidthWide == 60

\* a squat frame; vis names the joints the detector could place
SquatFrame(hipY, deg, kneeHalfWidth, vis) ==
    [kind |-> "squat",
     rightHip |-> IF vis = "noHips" THEN Missing ELSE Pt(500 - HipHalfWidth, hipY),
     leftHip |-> IF vis \in {"noHips", "rightSide"} THEN Missing ELSE Pt(500 + HipHalfWidth, hipY),
     rightKnee |-> IF vis = "noKnees" THEN Missing ELSE Pt(500 - kneeHalfWidth, KneeLineY),
     leftKnee |-> IF vis \in {"noKnees", "rightSide"} THEN Missing
                  ELSE Pt(500 + kneeHalfWidth, KneeLineY),
     rightAnkle |-> IF vis = "noAnkles" THEN Missing ELSE Pt(500 - kneeHalfWidth, 900),
     leftAnkle |-> IF vis \in {"noAnkles", "rightSide"} THEN Missing
                   ELSE Pt(500 + kneeHalfWidth, 900),
     rightKneeDeg |-> deg,
     leftKneeDeg |-> deg]

\* a repetition and what may spoil it: standing, and the dip with the knees
\* out, the knees in, the hips staying up, one side of the body hidden
DipFrames ==
    {SquatFrame(HipYStanding, KneeDegStanding, KneeHalfWidthWide, "all"),
     SquatFrame(HipYDeep, KneeDegDeep, KneeHalfWidthWide, "all"),
     SquatFrame(HipYDeep, KneeDegDeep, KneeHalfWidthNarrow, "all"),
     SquatFrame(HipYStanding, KneeDegDeep, KneeHalfWidthWide, "all"),
     SquatFrame(HipYDeep, KneeDegDeep, KneeHalfWidthWide, "rightSide")}

\* the frames whose knee angle is KneeDegHalf or more, or cannot be measured
HighKneeFrames ==
    {SquatFrame(hipY, deg, KneeHalfWidthWide, "all") :
        hipY \in {HipYStanding, HipYDeep}, deg \in {KneeDegHalf, KneeDegStanding}}
    \cup {SquatFrame(HipYDeep, KneeDegHalf, KneeHalfWidthNarrow, "all"),
          SquatFrame(HipYDeep, KneeDegHalf, KneeHalfWidthWide, "rightSide"),
          SquatFrame(HipYDeep, KneeDegHalf, KneeHalfWidthWide, "noAnkles")}

SquatFrames ==
    DipFrames \cup HighKneeFrames
    \cup {SquatFrame(HipYDeep, KneeDegDeep, KneeHalfWidthWide, vis) : vis \in {"noHips", "noKnees"}}

\* elbow angles: at the bottom, just above the bottom, half way, locked out
ElbowDegBottom == 90
ElbowDegShallow == 113
ElbowDegHalf == 130
ElbowDegTop == 160

PushupFrame(deg, vis) ==
    [kind |-> "pushup",
     shoulder |-> Pt(400, 500),
     elbow |-> Pt(400, 600),
     wrist |-> IF vis = "noWrist" THEN Missing ELSE Pt(400, 700),
     elbowDeg |-> deg]

PushupFrames ==
    {PushupFrame(deg, "all") : deg \in {ElbowDegBottom, ElbowDegShallow, ElbowDegHalf, ElbowDegTop}}
    \cup {PushupFrame(ElbowDegTop, "noWrist")}

\* the height of the shoulders on the bar
ShoulderLineY == 400
\* wrists below the shoulders: a full hang, a bent-arm hang, nearly at the bar
WristYHang == 550
WristYBent == 500
WristYHigh == 470
\* the nose above and below the shoulder line + offset
NoseYTop == 430
NoseYBelow == 480

PullupFrame(wristY, noseY, vis) ==
    [kind |-> "pullup",
     leftWrist |-> Pt(560, wristY),
     rightWrist |-> Pt(440, wristY),
     leftShoulder |-> Pt(560, ShoulderLineY),
     rightShoulder |-> Pt(440, ShoulderLineY),
     nose |-> IF vis = "noNose" THEN Missing ELSE Pt(500, noseY)]

PullupFrames ==
    {PullupFrame(wristY, noseY, "all") :
        wristY \in {WristYHang, WristYBent, WristYHigh}, noseY \in {NoseYTop, NoseYBelow}}
    \cup {PullupFrame(WristYHang, NoseYTop, "noNose")}

\* jumping jack: the shoulders' height, half the shoulder and hip widths
JackShoulderY == 300
JackShoulderHalfWidth == 60
JackHipHalfWidth == 40
\* half the distance between the ankles: together (two stances), stepping out,
\* nearly wide, wide
AnkleHalfTogether == 30
AnkleHalfLoose == 40
AnkleHalfStep == 55
AnkleHalfAlmostWide == 75
AnkleHalfWide == 100
\* the wrists' height relative to the shoulders: overhead, nearly overhead,
\* level, nearly down, down
WristRiseOverhead == 50
WristRiseAlmost == 35
WristRiseLevel == 0
WristDropAlmost == 30
WristDropDown == 40
\* half the distance between the wrists: at the sides, spread
WristHalfSides == 70
WristHalfSpread == 150

JackFrame(ankleHalf, wristRise, wristHalf, vis) ==
    [kind |-> "jumpingJack",
     leftAnkle |-> IF vis = "noAnkles" THEN Missing ELSE Pt(500 + ankleHalf, 900),
     rightAnkle |-> IF vis = "noAnkles" THEN Missing ELSE Pt(500 - ankleHalf, 900),
     leftWrist |-> Pt(500 + wristHalf, JackShoulderY - wristRise),
     rightWrist |-> Pt(500 - wristHalf, JackShoulderY - wristRise),
     leftShoulder |-> Pt(500 + JackShoulderHalfWidth, JackShoulderY),
     rightShoulder |-> Pt(500 - JackShoulderHalfWidth, JackShoulderY),
     leftHip |-> IF vis = "noHips" THEN Missing ELSE Pt(500 + JackHipHalfWidth, 600),
     rightHip |-> IF vis = "noHips" THEN Missing ELSE Pt(500 - JackHipHalfWidth, 600)]

JackFrames ==
    {JackFrame(a, w, g, "all") :
        a \in {AnkleHalfTogether, AnkleHalfLoose, AnkleHalfStep, AnkleHalfAlmostWide, AnkleHalfWide},
        w \in {WristRiseOverhead, WristRiseAlmost, WristRiseLevel,
               0 - WristDropAlmost, 0 - WristDropDown},
        g \in {WristHalfSides, WristHalfSpread}}
    \cup {JackFrame(AnkleHalfWide, WristRiseOverhead, WristHalfSpread, vis) :
            vis \in {"noAnkles", "noHips"}}

\* plank: heights of shoulder, hip and ankle when prone, and of the hip when upright
PlankShoulderY == 600
PlankHipY == 610
PlankAnkleY == 620
UprightHipY == 850
\* torso angles: a straight line, a slight sag, a collapsed plank
BodyDegStrong == 176
BodyDegSag == 160
BodyDegLow == 148

PlankFrame(hipY, deg, vis) ==
    [kind |-> "plank",
     shoulder |-> Pt(300, PlankShoulderY),
     hip |-> Pt(500, hipY),
     ankle |-> IF vis = "noAnkle" THEN Missing ELSE Pt(700, PlankAnkleY),
     bodyDeg |-> deg]

PlankFrames ==
    {PlankFrame(PlankHipY, deg, "all") : deg \in {BodyDegStrong, BodyDegSag, BodyDegLow}}
    \cup {PlankFrame(UprightHipY, BodyDegStrong, "all"), PlankFrame(PlankHipY, BodyDegStrong, "noAnkle")}

\* the landmarks each analyzer reads with getPoint
JointsOf(m) ==
    CASE m = "squat" -> {"rightHip", "rightKnee", "rightAnkle", "leftHip", "leftKnee", "leftAnkle"}
      [] m = "pushup" -> {"shoulder", "elbow", "wrist"}
      [] m = "pullup" -> {"leftWrist", "rightWrist", "leftShoulder", "rightShoulder", "nose"}
      [] m = "jumpingJack" -> {"leftAnkle", "rightAnkle", "leftWrist", "rightWrist",
                               "leftShoulder", "rightShoulder", "leftHip", "rightHip"}
      [] m = "plank" -> {"shoulder", "hip", "ankle"}

\* the frame lm with the joints js out of the detector's sight: getPoint
\* returns null for them
Hide(lm, js) == [f \in DOMAIN lm |-> IF f \in js THEN Missing ELSE lm[f]]

\* the joints of the frame lm for which getPoint returns null
HiddenIn(lm) == {j \in JointsOf(lm.kind) : ~lm[j].ok}

\* what may be hidden at once: both joints of a pair in the squat, which
\* reads either side of the body, and any one joint in the other modes
HiddenSetsOf(m) ==
    IF m = "squat"
    THEN {{"left" \o part, "right" \o part} : part \in {"Hip", "Knee", "Ankle"}}
    ELSE {{j} : j \in JointsOf(m)}

\* the frames of each mode
FramesOf(m) ==
    CASE m = "squat" -> SquatFrames
      [] m = "pushup" -> PushupFrames
      [] m = "pullup" -> PullupFrames
      [] m = "jumpingJack" -> JackFrames
      [] m = "plank" -> PlankFrames

\* a few frames of each mode, enough for a full repetition or a hold
CoreFramesOf(m) ==
    CASE m = "squat" -> {SquatFrame(HipYStanding, KneeDegStanding, KneeHalfWidthWide, "all"),
                         SquatFrame(HipYDeep, KneeDegDeep, KneeHalfWidthWide, "all")}
      [] m = "pushup" -> {PushupFrame(deg, "all") : deg \in {ElbowDegBottom, ElbowDegHalf, ElbowDegTop}}
      [] m = "pullup" -> {PullupFrame(WristYHang, NoseYBelow, "all"),
                          PullupFrame(WristYBent, NoseYBelow, "all"),
                          PullupFrame(WristYHigh, NoseYTop, "all")}
      [] m = "jumpingJack" -> {JackFrame(AnkleHalfTogether, 0 - WristDropDown, WristHalfSides, "all"),
                               JackFrame(AnkleHalfWide, WristRiseOverhead, WristHalfSpread, "all"),
                               JackFrame(AnkleHalfAlmostWide, WristRiseOverhead, WristHalfSpread, "all")}
      [] m = "plank" -> {PlankFrame(PlankHipY, BodyDegStrong, "all"),
                         PlankFrame(PlankHipY, BodyDegLow, "all"),
                         PlankFrame(UprightHipY, BodyDegStrong, "all")}

\* the pose of each mode that ends a repetition or begins the hold
ClosingFrameOf(m) ==
    CASE m = "squat" -> SquatFrame(HipYDeep, KneeDegDeep, KneeHalfWidthWide, "all")
      [] m = "pushup" -> PushupFrame(ElbowDegTop, "all")
      [] m = "pullup" -> PullupFrame(WristYHigh, NoseYTop, "all")
      [] m = "jumpingJack" -> JackFrame(AnkleHalfWide, WristRiseOverhead, WristHalfSpread, "all")
      [] m = "plank" -> PlankFrame(PlankHipY, BodyDegStrong, "all")

\* that pose with some of the joints hidden
GappyFramesOf(m) == {Hide(ClosingFrameOf(m), js) : js \in HiddenSetsOf(m)}

----------------------------------------------------------------------------
(* Actions.                                                                 *)

MsgLoading == "Loading pose intelligence..."
MsgCoachReady == "Coach ready. Press start to begin."
MsgSettingUp == "Setting up your camera..."
MsgPaused == "Session paused. Hit start when you want the coach back in."
MsgTrackingPlank == "Tracking plank alignment - reach long, pack shoulders, and breathe."
MsgTrackingForm == "Tracking form - move with tempo and stay controlled."
MsgCameraUnavailable == "Camera unavailable. Check permissions and try again."
MsgReadyPlank == "Coach ready: press the floor away, lengthen through the crown, and lock the core."
MsgReadyForm == "Coach ready: square up to the camera and move with intent."

\* what a render captures for the callbacks and effects it creates
Snapshot(ph, started, ready) ==
    [squatState |-> ph.squatState, pushupState |-> ph.pushupState,
     pullupState |-> ph.pullupState, jackState |-> ph.jackState,
     plankState |-> ph.plankState, isStarted |-> started, isVideoReady |-> ready]

\* the hook's state after a handler that ended in context c
Commit(c) ==
    /\ refs' = c.refs
    /\ phase' = c.phase
    /\ repCount' = c.repCount
    /\ feedback' = c.feedback
    /\ plankHoldMs' = c.plankHoldMs
    /\ said' = c.said
    /\ lastUtterAt' = c.lastUtter

\* the render loop's own bookkeeping, which no analyzer reads: the video's
\* currentTime (counted in camera frames) and the landmarks the detector finds
\* in that frame, lastVideoTimeRef, and the animation frame requests that are
\* pending (chains); with them, for the properties, the currentTime of the
\* frame analyzed last (seen), whether the loop effect has re-run since
\* (rerun), and whether the last analysis was of a frame analyzed before
\* ("no", or "rerun" or "plain" according to rerun)
LoopInit ==
    [video |-> 0, pose |-> SquatFrame(HipYStanding, KneeDegStanding, KneeHalfWidthWide, "all"),
     lastVideoTime |-> 0 - 1, chains |-> 0, seen |-> 0, rerun |-> FALSE, again |-> "no"]

\* the history of a session in which no frame was analyzed yet
HistInit ==
    [dips |-> 0, rises |-> 0, base |-> 0, hipsSank |-> FALSE,
     lowRun |-> 0, deep |-> FALSE, held |-> 0,
     ticked |-> FALSE, steady |-> FALSE, lapseAt |-> Null, last |-> {}, asked |-> {},
     since |-> "load", wiped |-> FALSE,
     step |-> "other", halted |-> FALSE, afterError |-> 0, gap |-> "none", gaps |-> 0,
     neutral |-> FALSE, wrote |-> "none",
     leg |-> "none", low |-> FALSE, part |-> FALSE,
     run |-> [cls |-> "none", n |-> 0],
     bad |-> 0, near |-> 0, lagged |-> FALSE, dropped |-> "none", revived |-> FALSE,
     smooth |-> [ref |-> "none", applied |-> FALSE, old |-> Null, value |-> Null,
                 alpha |-> 0, grid |-> 1, ret |-> Null],
     pose |-> "none", centered |-> FALSE, toldAt |-> Null, toldGap |-> Null,
     loop |-> LoopInit]

Init ==
    /\ mode \in SUPPORTED_MODES
    /\ isStarted = FALSE
    /\ isVideoReady = FALSE
    /\ appError = NoError
    /\ repCount = 0
    /\ feedback = MsgCoachReady
    /\ phase = InitialPhase
    /\ plankHoldMs = 0
    /\ rendered = Snapshot(InitialPhase, FALSE, FALSE)
    /\ refs = ClearedRefs(0)
    /\ pendingStarts = 0
    /\ clock = 0
    /\ said = <<>>
    /\ lastUtterAt = Null
    /\ hist = HistInit

\* time passes
Tick(dt) ==
    /\ clock + dt <= MaxClock
    /\ clock' = clock + dt
    /\ said' = <<>>
    /\ UNCHANGED <<mode, isStarted, isVideoReady, appError, repCount, feedback, phase,
                   plankHoldMs, rendered, refs, pendingStarts, lastUtterAt>>

\* React renders and re-runs the loop effect: the callbacks see the current state
Render ==
    /\ rendered # Snapshot(phase, isStarted, isVideoReady)
    /\ rendered' = Snapshot(phase, isStarted, isVideoReady)
    /\ Commit(Ctx)
    /\ UNCHANGED <<mode, isStarted, isVideoReady, appError, pendingStarts, clock>>

\* start() up to its first await, called from App.handleStart: the Start button
\* is shown while the rendered isStarted is false
StartCall(limit) ==
    /\ ~rendered.isStarted
    /\ pendingStarts < limit
    /\ LET c == SetFeedbackMessage(ClearPoseRefs(Ctx), MsgSettingUp, NoOptions, DateNow)
       IN  /\ Commit(c)
           /\ rendered' = Snapshot(c.phase, isStarted, isVideoReady)
    /\ appError' = NoError
    /\ pendingStarts' = pendingStarts + 1
    /\ UNCHANGED <<mode, isStarted, isVideoReady, clock>>

\* start(), where at most MaxPendingStarts calls overlap
StartBegin == StartCall(MaxPendingStarts)

\* start() after the camera stream and the video metadata arrived
StartSucceed ==
    /\ pendingStarts > 0
    /\ pendingStarts' = pendingStarts - 1
    /\ isVideoReady' = TRUE
    /\ isStarted' = TRUE
    /\ Commit(SetFeedbackMessage(Ctx, IF mode = "plank" THEN MsgTrackingPlank ELSE MsgTrackingForm,
                                 Silent, DateNow))
    /\ UNCHANGED <<mode, appError, rendered, clock>>

\* start()'s catch block: the camera or the stream failed
StartFail ==
    /\ pendingStarts > 0
    /\ pendingStarts' = pendingStarts - 1
    /\ appError' = "Unable to access the camera."
    /\ isVideoReady' = FALSE
    /\ isStarted' = FALSE
    /\ Commit(SetFeedbackMessage(ClearPoseRefs(Ctx), MsgCameraUnavailable, NoOptions, DateNow))
    /\ UNCHANGED <<mode, rendered, clock>>

\* stop()'s writes to the pose state and the feedback
StopCtx == SetFeedbackMessage(ClearPoseRefs(Ctx), MsgPaused, Silent, DateNow)

\* stop(), called from App's click handlers (Stop, demo, navigation), whose
\* updates React renders before the next frame
Stop ==
    /\ isStarted' = FALSE
    /\ isVideoReady' = FALSE
    /\ Commit(StopCtx)
    /\ rendered' = Snapshot(StopCtx.phase, FALSE, FALSE)
    /\ UNCHANGED <<mode, appError, pendingStarts, clock>>

\* App.handleModeChange: setMode(nextMode); stop(); then the hook's mode effect
ModeChange(m) ==
    /\ m # mode
    /\ mode' = m
    /\ isStarted' = FALSE
    /\ isVideoReady' = FALSE
    /\ appError' = NoError
    /\ LET c == ClearPoseRefs(StopCtx)
       IN  /\ Commit([c EXCEPT !.feedback = IF m = "plank" THEN MsgReadyPlank ELSE MsgReadyForm])
           /\ rendered' = Snapshot(c.phase, FALSE, FALSE)
    /\ UNCHANGED <<pendingStarts, clock>>

\* the analyzer the render loop's switch (mode) calls
Analyze(c, lm) ==
    CASE mode = "squat" -> AnalyzeSquat(c, lm, rendered.squatState, DateNow)
      [] mode = "pushup" -> AnalyzePushup(c, lm, rendered.pushupState, DateNow)
      [] mode = "pullup" -> AnalyzePullup(c, lm, rendered.pullupState, DateNow)
      [] mode = "jumpingJack" -> AnalyzeJumpingJack(c, lm, rendered.jackState, DateNow)
      [] mode = "plank" -> AnalyzePlank(c, lm, rendered.plankState, PerformanceNow, DateNow)

\* one pass of renderLoop in which the detector returned the landmarks lm
Frame(lm) ==
    /\ rendered.isStarted /\ rendered.isVideoReady
    /\ repCount < MaxReps
    /\ LET c == Analyze(Ctx, lm)
       IN  /\ c.refs.standingHoldFramesRef <= MaxHoldFrames
           /\ c.refs.bottomHoldFramesRef <= MaxHoldFrames
           /\ c.refs.plankStandingFramesRef <= MaxStandingFrames
           /\ c.refs.plankLowFramesRef <= MaxLowFrames
           /\ Commit(c)
    /\ UNCHANGED <<mode, isStarted, isVideoReady, appError, rendered, pendingStarts, clock>>

\* the message renderLoop's catch block reports for a thrown value that is
\* not an Error
MsgDetectFailed == "Pose detection failed."

\* a pass of renderLoop as it would be if its catch block reset the pose state
FrameThrowsClearing ==
    /\ rendered.isStarted /\ rendered.isVideoReady
    /\ appError' = MsgDetectFailed
    /\ Commit(ClearPoseRefs(Ctx))
    /\ UNCHANGED <<mode, isStarted, isVideoReady, rendered, pendingStarts, clock>>

\* one pass of renderLoop in which detectForVideo throws: the catch block sets
\* appError, and the pass ends by requesting the next animation frame
FrameThrows ==
    /\ rendered.isStarted /\ rendered.isVideoReady
    /\ appError' = MsgDetectFailed
    /\ Commit(Ctx)
    /\ UNCHANGED <<mode, isStarted, isVideoReady, rendered, pendingStarts, clock>>

\* a pass of renderLoop as it would be if a frame without landmarks reset the
\* pose state
FrameEmptyClearing ==
    /\ rendered.isStarted /\ rendered.isVideoReady
    /\ Commit(ClearPoseRefs(Ctx))
    /\ UNCHANGED <<mode, isStarted, isVideoReady, appError, rendered, pendingStarts, clock>>

\* one pass of renderLoop in which results.landmarks is absent or empty: the
\* switch over the mode is skipped
FrameEmpty ==
    /\ rendered.isStarted /\ rendered.isVideoReady
    /\ Commit(Ctx)
    /\ UNCHANGED <<mode, isStarted, isVideoReady, appError, rendered, pendingStarts, clock>>

----------------------------------------------------------------------------
(* Specifications.  Every one runs the same handlers; each keeps in hist    *)
(* the history its properties read, and starts it afresh at every step that *)
(* calls clearPoseRefs.                                                     *)

\* a step that analyzes nothing and clears nothing
Keep(A) == A /\ UNCHANGED hist

\* a step that calls clearPoseRefs, or after which the history no longer
\* describes the last step
Forget(A) == A /\ hist' = HistInit

\* whether the pose state is what clearPoseRefs leaves behind
PoseCleared ==
    /\ repCount = 0
    /\ phase = InitialPhase
    /\ plankHoldMs = 0
    /\ refs = ClearedRefs(refs.lastSpeechTime)

\* a step that calls clearPoseRefs, in the history of sessions: since names
\* the last such step ("load" before the first) for as long as no frame was
\* analyzed after it, and wiped tells whether the step found a pose state that
\* frames had written to; a call of start inherits wiped from the step
\* before it
Cleared(A, by) ==
    /\ A
    /\ hist' = [HistInit EXCEPT !.since = by,
                                !.wiped = ~PoseCleared \/ (by = "start" /\ hist.wiped)]

\* the time that passes in one step of the clock
TickMs == 3000

\* the most feeds of one frame in a row that the history tells apart
MaxFeeds == 2

\* whether the frame handed to the analyzer most recently was lm
RepeatedFeed(lm) == \E l \in hist.last : l.frame = lm

\* the history of feeds after the frame lm: last holds the frame that was
\* handed to the analyzer most recently, how many times in a row it was (up to
\* MaxFeeds), the texts those feeds have spoken and whether one of them added
\* to repCount, for as long as no other handler has set the feedback since
FeedHist(lm) ==
    LET run == {l \in hist.last : l.frame = lm}
    IN  [hist EXCEPT !.since = "none", !.wiped = FALSE, !.last =
            {[frame |-> lm,
              feeds |-> IF run = {} THEN 1
                        ELSE Min((CHOOSE l \in run : TRUE).feeds + 1, MaxFeeds),
              spoke |-> {said'[i].text : i \in 1..Len(said')}
                        \cup UNION {l.spoke : l \in run},
              credited |-> repCount' > repCount \/ \E l \in run : l.credited]}]

\* every mode, a few frames of each
Next ==
    \/ Keep(Tick(TickMs))
    \/ Keep(Render)
    \/ Cleared(StartBegin, "start")
    \/ StartSucceed /\ hist' = [hist EXCEPT !.last = {}]
    \/ Cleared(StartFail, "fail")
    \/ Cleared(Stop, "stop")
    \/ \E m \in SUPPORTED_MODES : Cleared(ModeChange(m), "mode")
    \/ \E lm \in CoreFramesOf(mode) :
          Frame(lm) /\ refs'.plankLowFramesRef <= MaxTimedLowFrames /\ hist' = FeedHist(lm)

Spec == Init /\ [][Next]_vars

\* jumping jacks, every jumping-jack frame
NextJack ==
    \/ Keep(Tick(TickMs))
    \/ Keep(Render)
    \/ Forget(StartBegin)
    \/ Keep(StartSucceed)
    \/ Forget(Stop)
    \/ \E lm \in JackFrames : Keep(Frame(lm))

InitJack == Init /\ mode = "jumpingJack"

SpecJack == InitJack /\ [][NextJack]_vars

\* whether analyzeSquat returns before it measures anything
SquatSkips(lm) ==
    (~lm.rightHip.ok /\ ~lm.leftHip.ok) \/ (~lm.rightKnee.ok /\ ~lm.leftKnee.ok)

\* the history of dips after the frame lm: dips counts the frames in a row, up
\* to two, that measured a knee angle of KneeDegDeep, the first of them
\* analyzed in a confirmed and rendered phase "up"; rises counts the frames in
\* a row, up to two, that measured STANDING_KNEE_ANGLE or more after two such
\* dips; base is repCount before the first dip
DipHist(lm) ==
    IF SquatSkips(lm) THEN hist
    ELSE
    LET raw == SquatMeasure(refs, lm).rawKneeAngle
        confirmedUp == /\ phase.squatState = "up" /\ rendered.squatState = "up"
                       /\ refs.standingHoldFramesRef >= MIN_STANDING_HOLD_FRAMES
        dipping == hist.dips > 0 /\ hist.rises = 0
        deep == raw = KneeDegDeep
        tall == raw # Null /\ raw >= STANDING_KNEE_ANGLE
        starts == deep /\ ~dipping /\ confirmedUp
    IN  [hist EXCEPT
            !.dips = IF deep /\ dipping THEN Min(@ + 1, 2)
                     ELSE IF starts THEN 1
                     ELSE IF tall /\ @ = 2 THEN 2
                     ELSE 0,
            !.rises = IF tall /\ hist.dips = 2 THEN Min(@ + 1, 2) ELSE 0,
            !.base = IF starts THEN repCount
                     ELSE IF (deep /\ dipping) \/ (tall /\ hist.dips = 2) THEN @
                     ELSE 0]

\* squats, the clock standing still
NextSquat ==
    \/ Keep(Render)
    \/ Forget(StartBegin)
    \/ Keep(StartSucceed)
    \/ Forget(Stop)
    \/ \E lm \in DipFrames : Frame(lm) /\ hist' = DipHist(lm)

InitSquat == Init /\ mode = "squat"

SpecSquat == InitSquat /\ [][NextSquat]_vars

\* the history of the hips after the frame lm: hipsSank tells whether a frame
\* of the session found the hips below the knees by the strong margin
HipHist(lm) ==
    IF SquatSkips(lm) THEN hist
    ELSE [hist EXCEPT !.hipsSank = @ \/ SquatMeasure(refs, lm).hipBelowKneeStrong]

\* squats in which the knees never bend to less than KneeDegHalf
NextHighKnee ==
    \/ Keep(Render)
    \/ Forget(StartBegin)
    \/ Keep(StartSucceed)
    \/ Forget(Stop)
    \/ \E lm \in HighKneeFrames : Frame(lm) /\ hist' = HipHist(lm)

SpecHighKnee == InitSquat /\ [][NextHighKnee]_vars

\* the history of low frames after the frame lm: lowRun counts the frames in a
\* row, up to PLANK_STRICT_FRAMES, that reached the angle test with a smoothed
\* torso angle under PLANK_STRONG_ANGLE, the first of them analyzed with the
\* hold active; deep tells whether the last frame of such a run was under
\* PLANK_MIN_ANGLE; held is plankHoldMsRef before the first frame of the run
RunHist(lm) ==
    LET branch == PlankBranch(refs, lm)
        active == refs.plankHoldActiveRef
        running == hist.lowRun > 0 \/ active
    IN  IF branch = "skipped" THEN hist
        ELSE IF branch \in {"standing", "strong"}
        THEN [hist EXCEPT !.lowRun = 0, !.deep = FALSE, !.held = 0]
        ELSE [hist EXCEPT
                !.lowRun = IF running THEN Min(@ + 1, PLANK_STRICT_FRAMES) ELSE 0,
                !.deep = running /\ branch = "low",
                !.held = IF hist.lowRun > 0 THEN @
                         ELSE IF active THEN refs.plankHoldMsRef
                         ELSE 0]

\* planks, long runs of frames, the clock in steps of TickMs
NextPlankRun ==
    \/ Keep(Tick(TickMs))
    \/ Keep(Render)
    \/ Forget(StartBegin)
    \/ Keep(StartSucceed)
    \/ Forget(Stop)
    \/ \E lm \in PlankFrames : Frame(lm) /\ hist' = RunHist(lm)

InitPlank == Init /\ mode = "plank"

SpecPlankRun == InitPlank /\ [][NextPlankRun]_vars

\* the time that passes in one step of the clock while a plank is timed, and
\* the time at which that clock stops
PlankTickMs == 60
MaxPlankClock == 180

\* the history of a timed plank after the frame lm: ticked tells whether the
\* clock advanced since the last analyzed frame; steady tells whether the
\* hold is active and every frame analyzed since it became active, the
\* activating one included, measured a torso angle of PLANK_STRONG_ANGLE or
\* more at a later time than the frame before it; lapseAt is the timestamp of
\* the first frame since the last frame of the strong branch that was handed
\* to analyzePlank with the hold active, at a later time than
\* plankLastTimestampRef, and was skipped, near-standing or under
\* PLANK_STRONG_ANGLE (Null if there was none)
TimedHist(lm) ==
    LET branch == PlankBranch(refs, lm)
        after == refs'
        lapse == IF branch = "strong" THEN Null
                 ELSE IF /\ hist.lapseAt = Null
                         /\ refs.plankHoldActiveRef
                         /\ refs.plankLastTimestampRef # Null
                         /\ PerformanceNow > refs.plankLastTimestampRef
                 THEN PerformanceNow
                 ELSE hist.lapseAt
    IN  IF branch = "skipped" THEN [hist EXCEPT !.lapseAt = lapse]
        ELSE [hist EXCEPT
                !.ticked = FALSE,
                !.steady = /\ after.plankHoldActiveRef
                           /\ lm.bodyDeg >= PLANK_STRONG_ANGLE
                           /\ refs.plankHoldActiveRef => (hist.steady /\ hist.ticked),
                !.lapseAt = IF after.plankHoldActiveRef THEN lapse ELSE Null]

\* planks, the clock in steps of PlankTickMs
NextPlank ==
    \/ Tick(PlankTickMs) /\ clock' <= MaxPlankClock /\ hist' = [hist EXCEPT !.ticked = TRUE]
    \/ Keep(Render)
    \/ Forget(StartBegin)
    \/ Keep(StartSucceed)
    \/ Forget(Stop)
    \/ \E lm \in PlankFrames :
          Frame(lm) /\ refs'.plankLowFramesRef <= MaxTimedLowFrames /\ hist' = TimedHist(lm)

SpecPlank == InitPlank /\ [][NextPlank]_vars

\* the time that passes in one step of the clock between feedback messages
FeedbackTickMs == 1000

\* the messages handed to setFeedbackMessage and the options they come with
FeedbackTexts == {MsgPlankPress, MsgPlankReset}
FeedbackOptionSets == [immediate : BOOLEAN, allowRepeat : BOOLEAN, silent : BOOLEAN]

\* one call of setFeedbackMessage(message, options); asked holds the call and
\* the text that was displayed when it was made
Submit(message, options) ==
    /\ Commit(SetFeedbackMessage(Ctx, message, options, DateNow))
    /\ hist' = [hist EXCEPT !.asked = {[text |-> message, options |-> options,
                                        shown |-> feedback]}]
    /\ UNCHANGED <<mode, isStarted, isVideoReady, appError, rendered, pendingStarts, clock>>

\* setFeedbackMessage and speak on their own: any message, any options, at any time
NextFeedback ==
    \/ Forget(Tick(FeedbackTickMs))
    \/ \E message \in FeedbackTexts, options \in FeedbackOptionSets : Submit(message, options)

SpecFeedback == Init /\ [][NextFeedback]_vars

\* the squat session with overlapping calls of start: each call clears the
\* pose state where it begins, and the frames of a session that an earlier
\* call started are analyzed while a later call awaits the camera
NextOverlap ==
    \/ Keep(Render)
    \/ Cleared(StartCall(MaxOverlappingStarts), "start")
    \/ Keep(StartSucceed)
    \/ Cleared(StartFail, "fail")
    \/ Cleared(Stop, "stop")
    \/ \E lm \in CoreFramesOf(mode) :
          Frame(lm) /\ hist' = [hist EXCEPT !.since = "none", !.wiped = FALSE]

SpecOverlap == InitSquat /\ [][NextOverlap]_vars

\* a step of a session that analyzes nothing and clears nothing
Passing(A) == A /\ hist' = [hist EXCEPT !.step = "other"]

\* the history of a session after an analyzed frame: step names what the last
\* step was (an analyzed frame, a pass in which the detector threw, a pass
\* without landmarks, or another step), halted tells whether the detector has
\* thrown since the pose state was last cleared, and afterError whether a
\* frame was analyzed after that
SessionHist ==
    [hist EXCEPT !.since = "none", !.wiped = FALSE, !.step = "frame",
                 !.afterError = IF hist.halted THEN 1 ELSE hist.afterError]

\* the squat session with the passes of the render loop that analyze nothing:
\* those in which the detector throws and those in which it finds nobody
NextSession ==
    \/ Passing(Render)
    \/ Cleared(StartBegin, "start")
    \/ Passing(StartSucceed)
    \/ Cleared(Stop, "stop")
    \/ \E lm \in CoreFramesOf(mode) : Frame(lm) /\ hist' = SessionHist
    \/ FrameThrows /\ hist' = [hist EXCEPT !.step = "throw", !.halted = TRUE]
    \/ FrameEmpty /\ hist' = [hist EXCEPT !.step = "empty"]

SpecSession == InitSquat /\ [][NextSession]_vars

\* the joints that have to be visible for an analyzer to act, as listed: for
\* the squat the hips, knees and ankles, for the jumping jack the ankles,
\* wrists and shoulders, for the others every joint they read
ListedJoints(m) ==
    IF m = "jumpingJack" THEN JointsOf(m) \ {"leftHip", "rightHip"} ELSE JointsOf(m)

\* whether an analyzer returns before it measures anything when the joints
\* js are hidden: the squat when both hips or both knees are, the others
\* when any listed joint is
Unanalyzable(m, js) ==
    IF m = "squat"
    THEN {"leftHip", "rightHip"} \subseteq js \/ {"leftKnee", "rightKnee"} \subseteq js
    ELSE js \cap ListedJoints(m) # {}

\* what the frame lm lacks: "required" if its analyzer returns before it
\* measures anything, "listed" if a listed joint is hidden and the analyzer
\* goes on all the same, "none" otherwise
GapIn(lm) ==
    IF Unanalyzable(lm.kind, HiddenIn(lm)) THEN "required"
    ELSE IF HiddenIn(lm) \cap ListedJoints(lm.kind) # {} THEN "listed"
    ELSE "none"

\* a step that analyzes no frame, in a session in which the detector loses
\* sight of joints
Gapless(A) == A /\ hist' = [hist EXCEPT !.gap = "none"]

\* a session of any mode in which the detector loses sight of joints: gap
\* tells what the frame analyzed by the last step lacked, gaps how many frames
\* of the session lacked something
NextMissing ==
    \/ Gapless(Render)
    \/ Cleared(StartBegin, "start")
    \/ Gapless(StartSucceed)
    \/ \E lm \in CoreFramesOf(mode) \cup GappyFramesOf(mode) :
          /\ Frame(lm)
          /\ refs'.plankLowFramesRef <= MaxTimedLowFrames
          /\ GapIn(lm) # "none" => hist.gaps < MaxGapFrames
          /\ hist' = [hist EXCEPT !.since = "none", !.wiped = FALSE, !.gap = GapIn(lm),
                                  !.gaps = IF GapIn(lm) # "none" THEN @ + 1 ELSE @]

SpecMissing == Init /\ [][NextMissing]_vars

\* the baselines: the standing hip height and hip width of the squat, the
\* neutral ankle and wrist gaps of the jumping jack
BaselineRefs ==
    {"standingHipRef", "standingHipWidthRef", "jackNeutralAnkleGapRef", "jackNeutralWristGapRef"}

\* whether the frame lm, analyzed by the step, was confirmed neutral: for the
\* squat a standing frame that completes the standing hold, for the jumping
\* jack a frame that takes the center branch
ConfirmedNeutral(lm) ==
    IF mode = "squat"
    THEN /\ (lm.rightHip.ok \/ lm.leftHip.ok) /\ (lm.rightKnee.ok \/ lm.leftKnee.ok)
         /\ SquatMeasure(refs, lm).isStanding
         /\ refs'.standingHoldFramesRef >= MIN_STANDING_HOLD_FRAMES
    ELSE /\ \A j \in ListedJoints(mode) : lm[j].ok
         /\ LET m == JackMeasure(refs, lm, DateNow)
            IN  /\ ~(m.widePoseStrong \/ m.widePoseBorderline)
                /\ m.armsDown /\ m.legsTogetherEnough /\ m.wristsAtSides

\* the history of the baselines after the frame lm: neutral tells whether the
\* frame was confirmed neutral, wrote whether it gave a baseline its first
\* value ("seed") or changed the value of one ("update")
BaselineHist(lm) ==
    [hist EXCEPT !.since = "none", !.wiped = FALSE,
                 !.neutral = ConfirmedNeutral(lm),
                 !.wrote = IF \E b \in BaselineRefs : refs[b] # Null /\ refs'[b] # refs[b]
                           THEN "update"
                           ELSE IF \E b \in BaselineRefs : refs'[b] # refs[b] THEN "seed"
                           ELSE "none"]

\* a step of a session that analyzes no frame
Idle(A) == A /\ hist' = [hist EXCEPT !.neutral = FALSE, !.wrote = "none"]

\* the squat and the jumping jack, with every posture their analyzers tell apart
NextBaseline ==
    \/ Idle(Render)
    \/ Cleared(StartBegin, "start")
    \/ Idle(StartSucceed)
    \/ Cleared(Stop, "stop")
    \/ \E lm \in IF mode = "squat" THEN DipFrames ELSE JackFrames :
          Frame(lm) /\ hist' = BaselineHist(lm)

InitBaseline == Init /\ mode \in {"squat", "jumpingJack"}

SpecBaseline == InitBaseline /\ [][NextBaseline]_vars

\* renderLoop's test of the video's currentTime against lastVideoTimeRef as
\* it would be if it let every pass through
AnyVideoFrame == TRUE

\* renderLoop's test of the video's currentTime against lastVideoTimeRef
FreshVideoFrame == hist.loop.video # hist.loop.lastVideoTime

\* the requests the loop effect's cleanup cancels: the one most recently made
Cancelled(chains) == IF chains > 0 THEN 1 ELSE 0

\* the loop after a step that rendered: when what the loop effect depends on
\* has changed, React runs the cleanup of the previous run, if that run got
\* as far as requesting a frame, and then the effect again
LoopAfter(l) ==
    IF rendered' = rendered THEN l
    ELSE [l EXCEPT !.lastVideoTime = IF l.chains > 0 THEN 0 - 1 ELSE @,
                   !.chains = (@ - Cancelled(@))
                              + (IF rendered'.isStarted /\ rendered'.isVideoReady THEN 1 ELSE 0),
                   !.rerun = TRUE]

\* a step of the session that neither analyzes a frame nor writes lastVideoTimeRef
Looping(A) == A /\ hist' = [hist EXCEPT !.loop = LoopAfter(@)]

\* a step of start or stop that sets lastVideoTimeRef to -1; the stream it
\* attaches or detaches begins the video anew
Rewinding(A) ==
    /\ A
    /\ hist' = [hist EXCEPT !.loop = LoopAfter([@ EXCEPT !.lastVideoTime = 0 - 1, !.seen = 0,
                                                         !.video = 0])]

\* the camera delivers a frame in which the detector will find the landmarks lm
VideoAdvance(lm) ==
    /\ isStarted /\ isVideoReady
    /\ hist.loop.video < MaxVideoFrames
    /\ hist' = [hist EXCEPT !.loop.video = @ + 1, !.loop.pose = lm]
    /\ Commit(Ctx)
    /\ UNCHANGED <<mode, isStarted, isVideoReady, appError, rendered, pendingStarts, clock>>

\* a pass of renderLoop, called back by the pending animation frame request,
\* that finds a currentTime other than lastVideoTimeRef and analyzes the frame
LoopPass ==
    /\ hist.loop.chains > 0
    /\ hist.loop.video > 0
    /\ FreshVideoFrame
    /\ Frame(hist.loop.pose)
    /\ hist' = [hist EXCEPT !.loop.lastVideoTime = hist.loop.video,
                            !.loop.seen = hist.loop.video,
                            !.loop.rerun = FALSE,
                            !.loop.again = IF hist.loop.seen # hist.loop.video THEN "no"
                                           ELSE IF hist.loop.rerun THEN "rerun" ELSE "plain"]

\* the squat session with its render loop and the camera's frames
NextLoop ==
    \/ Looping(Render)
    \/ Looping(StartBegin)
    \/ Rewinding(StartSucceed)
    \/ Rewinding(Stop)
    \/ \E lm \in CoreFramesOf(mode) : VideoAdvance(lm)
    \/ LoopPass

SpecLoop == InitSquat /\ [][NextLoop]_vars

----------------------------------------------------------------------------
(* Properties.                                                              *)

\* the steps that call clearPoseRefs: start, stop, a mode change
ClearingStep == StartBegin \/ StartFail \/ Stop \/ \E m \in SUPPORTED_MODES : ModeChange(m)

C4_ShallowNeverCounts ==
    (mode = "squat" /\ ~hist.hipsSank) => (repCount = 0 /\ phase.squatState # "down")

\* a dip to KneeDegHalf is being held, hips lowered but not below the knees
C4_Witness ==
    /\ mode = "squat" /\ isStarted /\ ~hist.hipsSank
    /\ phase.squatState = "up"
    /\ refs.standingHoldFramesRef = 0
    /\ refs.smoothedKneeAngleRef # Null
    /\ refs.smoothedKneeAngleRef < STANDING_KNEE_ANGLE - STANDING_ANGLE_RELAXATION
    /\ refs.smoothedHipYRef > refs.standingHipRef

\* C4 as the specification words it: in a session whose frames all measure a
\* knee angle of KneeDegHalf or more, repCount stays 0
C4_AsWritten == mode = "squat" => repCount = 0


\* C1: in every mode an analyzed frame leaves repCount as it is or adds one to
\* it, and repCount never goes down except to 0, in a step that calls
\* clearPoseRefs (start, stop, mode change)
C1_RepCountMonotone ==
    [][/\ repCount' \in {repCount, repCount + 1} \/ ~(\E lm \in CoreFramesOf(mode) : Frame(lm))
       /\ repCount' >= repCount \/ (repCount' = 0 /\ ClearingStep)]_vars

\* two repetitions were credited in the session
C1_Witness == repCount = 2 /\ isStarted

\* C2: in jumping-jack mode a frame in a wide posture, strong or borderline,
\* analyzed while jackNeutralAnkleGapRef is still null (no frame of the session
\* was confirmed as center yet) leaves repCount as it is
C2_ColdStart ==
    [][\/ repCount' = repCount
       \/ \A lm \in JackFrames :
             ~(/\ refs.jackNeutralAnkleGapRef = Null
               /\ LET m == JackMeasure(refs, lm, DateNow)
                  IN  m.widePoseStrong \/ m.widePoseBorderline
               /\ Frame(lm))]_vars

\* a wide posture was analyzed before any center frame and was answered with
\* the request to start neutral
C2_Witness ==
    /\ mode = "jumpingJack" /\ isStarted
    /\ refs.jackNeutralAnkleGapRef = Null
    /\ ~refs.jackCenterReadyRef
    /\ feedback = MsgJackStartNeutral
    /\ repCount = 0

\* C10: an utterance that was not immediate was emitted at least
\* SPEECH_COOLDOWN_MS after the most recent utterance of any kind before it
C10_Cooldown ==
    \A i \in 1..Len(said) :
        ~said[i].immediate /\ said[i].prior # Null
            => said[i].at - said[i].prior >= SPEECH_COOLDOWN_MS

\* an utterance that was not immediate was emitted after an earlier utterance
C10_Witness ==
    \E i \in 1..Len(said) : ~said[i].immediate /\ said[i].prior # Null

\* C5 as the specification words it: a frame handed to the analyzer again,
\* right after a feed of the same frame, leaves repCount as it is and speaks
\* no text that the earlier feeds of that frame have spoken
C5_AsWritten ==
    [][\/ /\ repCount' = repCount
          /\ \A i \in 1..Len(said') : \A l \in hist.last : said'[i].text \notin l.spoke
       \/ \A lm \in CoreFramesOf(mode) : ~(RepeatedFeed(lm) /\ Frame(lm))]_vars

\* C5: a frame handed to the analyzer again, right after a feed of the same
\* frame, speaks no text that the earlier feeds of that frame have spoken; in
\* pushup, pullup, jumping-jack and plank mode it leaves repCount as it is; in
\* squat mode it leaves repCount as it is or adds one to it, and adds one only
\* if none of the earlier feeds of that frame did
C5_RepeatedFeed ==
    [][\/ /\ \A i \in 1..Len(said') : \A l \in hist.last : said'[i].text \notin l.spoke
          /\ \/ repCount' = repCount
             \/ /\ mode = "squat"
                /\ repCount' = repCount + 1
                /\ \A l \in hist.last : ~l.credited
       \/ \A lm \in CoreFramesOf(mode) : ~(RepeatedFeed(lm) /\ Frame(lm))]_vars

\* one frame was fed twice or more in a row; one of the feeds added to
\* repCount and one of them spoke
C5_Witness ==
    \E l \in hist.last : l.feeds >= 2 /\ l.credited /\ l.spoke # {} /\ repCount > 0

\* C6 as the specification words it: once PLANK_STRICT_FRAMES frames in a
\* row, begun with the hold active, were analyzed with a smoothed torso angle
\* under PLANK_STRONG_ANGLE, plankHoldMsRef and plankHoldMs are 0
C6_AsWritten ==
    hist.lowRun >= PLANK_STRICT_FRAMES => (refs.plankHoldMsRef = 0 /\ plankHoldMs = 0)

\* C6: in plank mode, once PLANK_STRICT_FRAMES frames or more in a row, begun
\* with the hold active, were analyzed with a smoothed torso angle under
\* PLANK_STRONG_ANGLE and the last of them was under PLANK_MIN_ANGLE, the hold
\* is over and plankHoldMsRef and plankHoldMs are 0
C6_StrictReset ==
    (hist.lowRun >= PLANK_STRICT_FRAMES /\ hist.deep)
        => (~refs.plankHoldActiveRef /\ refs.plankHoldMsRef = 0 /\ plankHoldMs = 0)

\* a hold that had accrued time was ended by the last frame of a low run
C6_Witness ==
    /\ hist.lowRun >= PLANK_STRICT_FRAMES /\ hist.deep
    /\ hist.held > 0
    /\ refs.plankHoldMsRef = 0

\* C9 as the specification words it: in plank mode the hold timer is never
\* negative, and it is 0 whenever the plank phase is "setup" or "adjust"
C9_AsWritten ==
    mode = "plank"
        => /\ refs.plankHoldMsRef >= 0 /\ plankHoldMs >= 0
           /\ phase.plankState \in {"setup", "adjust"}
                  => (refs.plankHoldMsRef = 0 /\ plankHoldMs = 0)

\* C9: in plank mode plankHoldMsRef and plankHoldMs are never negative, and
\* both are 0 whenever plankHoldActiveRef is false
C9_ZeroUnlessActive ==
    mode = "plank"
        => /\ refs.plankHoldMsRef >= 0 /\ plankHoldMs >= 0
           /\ ~refs.plankHoldActiveRef => (refs.plankHoldMsRef = 0 /\ plankHoldMs = 0)

\* a hold whose time had been published was ended and the phase is "setup"
C9_Witness ==
    /\ mode = "plank" /\ isStarted
    /\ ~refs.plankHoldActiveRef
    /\ phase.plankState = "setup"
    /\ hist.held >= PLANK_TIMER_UPDATE_INTERVAL_MS
    /\ plankHoldMs = 0

C8_AsWritten ==
    [][refs'.plankHoldMsRef > refs.plankHoldMsRef
          => (hist.lapseAt = Null \/ hist.lapseAt >= PerformanceNow)]_vars

\* C11 as the specification words it: a message handed to setFeedbackMessage
\* with immediate set, and not silent, is spoken by that call
C11_AsWritten ==
    \A a \in hist.asked :
        (a.options.immediate /\ ~a.options.silent)
            => (Len(said) = 1 /\ said[1].text = a.text)

\* C11: a message handed to setFeedbackMessage with immediate set, and not
\* silent, is spoken by that call, whenever the last utterance was, if its text
\* differs from the displayed text or allowRepeat is set; with the displayed
\* text and without allowRepeat the call speaks nothing
C11_ImmediateSpoken ==
    \A a \in hist.asked :
        (a.options.immediate /\ ~a.options.silent)
            => IF a.shown # a.text \/ a.options.allowRepeat
               THEN /\ Len(said) = 1
                    /\ said[1].text = a.text /\ said[1].immediate /\ said[1].at = DateNow
               ELSE said = <<>>

\* an immediate message was spoken within SPEECH_COOLDOWN_MS of the utterance before it
C11_Witness ==
    \E a \in hist.asked :
        /\ a.options.immediate /\ ~a.options.silent /\ a.shown # a.text
        /\ Len(said) = 1
        /\ said[1].prior # Null
        /\ said[1].at - said[1].prior < SPEECH_COOLDOWN_MS


----------------------------------------------------------------------------
\* C12: whenever the mode changes, the step that changes it leaves repCount at
\* 0, every phase at its initial value, every smoothing accumulator and
\* baseline null, every counter and flag at its initial value and the plank
\* timer at 0, and all of that stays so until a frame is analyzed in the new
\* mode.
C12_ModeChangeResets ==
    /\ [][mode' # mode => hist'.since = "mode"]_vars
    /\ [](hist.since = "mode" => PoseCleared)

\* a mode change has just wiped a pose state that frames had written to
C12_Witness ==
    /\ hist.since = "mode"
    /\ hist.wiped
    /\ PoseCleared

\* C13: every call of stop leaves repCount, the phases, the counters, the
\* smoothing accumulators, the baselines and the plank timer at their initial
\* values, and so does every step in which a call of start reaches the started
\* state, so that the frames analyzed after it begin from the initial state.
C13_AsWritten ==
    [][(hist'.since = "stop" \/ (isStarted' /\ pendingStarts' < pendingStarts)) => PoseCleared']_vars

\* C14: from a call of stop (explicit, or issued by a mode change) until
\* start is called again, the session is not started, whatever a call of start
\* that was still awaiting the camera does in the meantime.
C14_AsWritten == hist.since \in {"stop", "mode"} => ~isStarted

\* C15: once the detector has thrown during a frame, appError is set and no
\* frame is analyzed until the session is restarted.
C15_AsWritten == hist.halted => (appError # NoError /\ hist.afterError = 0)

\* C16: a pass of the render loop in which the detector throws leaves
\* repCount, every phase, every counter and baseline among the refs, the plank
\* hold timer and the feedback as they were; it sets appError and nothing else.
C16_ThrowKeepsState ==
    [][hist'.step = "throw" =>
          /\ appError' = MsgDetectFailed
          /\ UNCHANGED <<repCount, phase, refs, plankHoldMs, feedback, lastUtterAt,
                         mode, isStarted, isVideoReady>>
          /\ said' = <<>>]_vars

\* the detector has just thrown in a session that had counted a rep and set
\* its standing baseline
C16_Witness ==
    /\ hist.step = "throw"
    /\ appError = MsgDetectFailed
    /\ repCount > 0
    /\ refs.standingHipRef # Null

\* C17: a pass of the render loop in which the detector returns no landmarks
\* calls no analyzer: repCount, the phases, the feedback, the counters, the
\* smoothing accumulators, the baselines and the plank timer are unchanged and
\* nothing is spoken.
C17_EmptyFrameNoChange ==
    [][hist'.step = "empty" =>
          /\ UNCHANGED <<repCount, phase, feedback, refs, plankHoldMs, lastUtterAt, appError>>
          /\ said' = <<>>]_vars

\* the detector has just found nobody in a session that was in the middle of
\* a squat
C17_Witness ==
    /\ hist.step = "empty"
    /\ phase.squatState = "down"
    /\ refs.smoothedHipYRef # Null

\* a frame that was a no-op: no phase change, no change of a counter or of
\* any other ref, no feedback and nothing spoken
AnalysisNoOp ==
    /\ UNCHANGED <<phase, repCount, refs, feedback, plankHoldMs, lastUtterAt>>
    /\ said' = <<>>

\* C18 as stated: a frame that lacks any of the joints listed for its analyzer
\* is a no-op.
C18_AsWritten ==
    [][hist'.gap # "none" => AnalysisNoOp]_vars

\* C18: a frame is a no-op if it lacks any of the joints its analyzer requires,
\* where the squat requires one hip and one knee and the other analyzers every
\* joint listed for them.
C18_MissingJointNoOp ==
    [][hist'.gap = "required" => AnalysisNoOp]_vars

\* a frame without the wrist has just been handed to the push-up analyzer in
\* the middle of a repetition
C18_Witness ==
    /\ mode = "pushup"
    /\ hist.gap = "required"
    /\ phase.pushupState = "lowering"
    /\ refs.pushupBottomSeenRef

----------------------------------------------------------------------------
(* Push-ups and pull-ups: the cycle of a repetition.                        *)

\* whether analyzePushup / analyzePullup returns at its guard
ArmsSkip(lm) ==
    IF mode = "pushup" THEN ~lm.shoulder.ok \/ ~lm.elbow.ok \/ ~lm.wrist.ok
    ELSE ~lm.leftWrist.ok \/ ~lm.rightWrist.ok \/ ~lm.leftShoulder.ok
         \/ ~lm.rightShoulder.ok \/ ~lm.nose.ok

\* whether the frame shows the low end of the repetition: the elbow at
\* PUSHUP_BOTTOM_ANGLE or less, the wrists PULLUP_BOTTOM_WRIST_OFFSET or more
\* below the shoulders
ArmsLow(lm) ==
    IF mode = "pushup" THEN lm.elbowDeg <= PUSHUP_BOTTOM_ANGLE
    ELSE (lm.leftWrist.y + lm.rightWrist.y) - (lm.leftShoulder.y + lm.rightShoulder.y)
            >= 2 * PULLUP_BOTTOM_WRIST_OFFSET

\* whether the frame shows the high end and not the low end: the elbow at
\* PUSHUP_TOP_ANGLE or more, the nose at or above the shoulder line plus
\* PULLUP_TOP_NOSE_OFFSET
ArmsHigh(lm) ==
    /\ ~ArmsLow(lm)
    /\ IF mode = "pushup" THEN lm.elbowDeg >= PUSHUP_TOP_ANGLE
       ELSE 2 * lm.nose.y <= lm.leftShoulder.y + lm.rightShoulder.y + 2 * PULLUP_TOP_NOSE_OFFSET

\* the history of a repetition after the frame lm: leg is "out" after a frame
\* at the high end, "low" after a frame at the low end (in a push-up only
\* when a frame at the high end came before it) and is kept by the frames in
\* between; low tells whether a frame at the low end was analyzed since the
\* session began or repCount last grew; part tells whether the frames since
\* the last one at the high end all lay between the two ends
ArmHist(lm) ==
    IF ArmsSkip(lm) THEN hist
    ELSE [hist EXCEPT
            !.leg = IF ArmsHigh(lm) THEN "out"
                    ELSE IF ArmsLow(lm) /\ (mode = "pullup" \/ @ # "none") THEN "low"
                    ELSE @,
            !.low = IF ArmsLow(lm) THEN TRUE
                    ELSE IF repCount' > repCount THEN FALSE
                    ELSE @,
            !.part = ~ArmsHigh(lm) /\ ~ArmsLow(lm) /\ (@ \/ hist.leg = "out")]

\* push-ups and pull-ups, every frame of each
NextArms ==
    \/ Keep(Tick(TickMs))
    \/ Keep(Render)
    \/ Forget(StartBegin)
    \/ Keep(StartSucceed)
    \/ Forget(Stop)
    \/ \E lm \in FramesOf(mode) : Frame(lm) /\ hist' = ArmHist(lm)

InitArms == Init /\ mode \in {"pushup", "pullup"}

SpecArms == InitArms /\ [][NextArms]_vars

\* whether the step is a frame at the high end that ends a cycle
CycleEnds == hist.leg = "low" /\ hist'.leg = "out"

\* whether the callbacks of the loop are those of the current state
UpToDate == rendered = Snapshot(phase, isStarted, isVideoReady)

\* C21 as the specification states it: in a push-up every cycle lockout,
\* bottom, lockout is credited with exactly one repetition, whatever frames
\* lie between the bottom and the lockout (here even with the last lockout
\* analyzed by up-to-date callbacks)
C21_AsWritten ==
    [][(mode = "pushup" /\ CycleEnds /\ UpToDate) => repCount' = repCount + 1]_vars

\* C22 as the specification states it: in a pull-up every full hang followed
\* by a frame at the top is credited with exactly one repetition, with or
\* without pulling frames in between (here even with the frame at the top
\* analyzed by up-to-date callbacks)
C22_AsWritten ==
    [][(mode = "pullup" /\ CycleEnds /\ UpToDate) => repCount' = repCount + 1]_vars

\* C23: a step that adds to repCount adds one, and a frame at the low end (a
\* push-up's bottom, a pull-up's full hang) was analyzed since the session
\* began or repCount last grew
C23_ExtremeBetweenCredits ==
    [][repCount' > repCount => (repCount' = repCount + 1 /\ hist.low /\ ~hist'.low)]_vars

C23_Witness == repCount = 2 /\ ~hist.low /\ hist.leg = "out"

----------------------------------------------------------------------------
(* Jumping jacks: the cycle of a repetition and the pace of the feedback.   *)

\* the branch of analyzeJumpingJack that the frame lm takes: "skip" at the
\* guard, "wide" for a strong wide pose, "border" for a borderline one,
\* "center" for the neutral pose, "between" for the hints
JackPose(lm) ==
    IF \E j \in ListedJoints("jumpingJack") : ~lm[j].ok THEN "skip"
    ELSE LET m == JackMeasure(refs, lm, DateNow)
         IN  IF m.widePoseStrong THEN "wide"
             ELSE IF m.widePoseBorderline THEN "border"
             ELSE IF m.armsDown /\ m.legsTogetherEnough /\ m.wristsAtSides THEN "center"
             ELSE "between"

\* whether the step displays a text that a call of setFeedbackMessage
\* without the silent option has set: every text of analyzeJumpingJack but
\* the one that follows a strong repetition
JackTold == feedback' # feedback /\ feedback' # MsgJackCounted

\* the history of a jumping jack after the frame lm: pose is the branch the
\* frame took, centered tells whether a frame took the center branch since
\* the session began or repCount last grew, toldAt is the time of the last
\* text the analyzer set without the silent option and toldGap the time
\* between the last two
JackHist(lm) ==
    LET pose == JackPose(lm)
    IN  [hist EXCEPT !.pose = pose,
                     !.centered = IF pose = "center" THEN TRUE
                                  ELSE IF repCount' > repCount THEN FALSE
                                  ELSE @,
                     !.toldAt = IF JackTold THEN DateNow ELSE @,
                     !.toldGap = IF JackTold /\ hist.toldAt # Null THEN DateNow - hist.toldAt
                                 ELSE @]

\* a step of a session that analyzes no frame
Resting(A) == A /\ hist' = [hist EXCEPT !.pose = "none"]

\* the neutral pose with the feet together and a little apart, a strong and
\* two borderline wide poses, and poses that earn each hint on the way out
\* and on the way back
JackCycleFrames ==
    {JackFrame(AnkleHalfTogether, 0 - WristDropDown, WristHalfSides, "all"),
     JackFrame(AnkleHalfWide, WristRiseOverhead, WristHalfSpread, "all"),
     JackFrame(AnkleHalfAlmostWide, WristRiseAlmost, WristHalfSpread, "all"),
     JackFrame(AnkleHalfAlmostWide, WristRiseOverhead, WristHalfSpread, "all"),
     JackFrame(AnkleHalfWide, WristRiseLevel, WristHalfSpread, "all"),
     JackFrame(AnkleHalfStep, WristRiseOverhead, WristHalfSpread, "all"),
     JackFrame(AnkleHalfAlmostWide, WristRiseLevel, WristHalfSpread, "all"),
     JackFrame(AnkleHalfLoose, 0 - WristDropAlmost, WristHalfSides, "all"),
     JackFrame(AnkleHalfLoose, 0 - WristDropDown, WristHalfSides, "all"),
     JackFrame(AnkleHalfTogether, 0 - WristDropDown, WristHalfSpread, "all")}

\* jumping jacks, the clock advancing by the feedback cooldown
NextJackCycle ==
    \/ Resting(Tick(JACK_FEEDBACK_COOLDOWN_MS))
    \/ Resting(Render)
    \/ Forget(StartBegin)
    \/ Resting(StartSucceed)
    \/ Forget(Stop)
    \/ \E lm \in JackCycleFrames : Frame(lm) /\ hist' = JackHist(lm)

SpecJackCycle == InitJack /\ [][NextJackCycle]_vars

\* C24: a step that adds to repCount adds one, and a frame took the center
\* branch since the session began or repCount last grew: holding the wide
\* pose, or leaving and re-entering it without the neutral pose, is credited
\* at most once
C24_CenterBetweenCredits ==
    [][repCount' > repCount => (repCount' = repCount + 1 /\ hist.centered /\ ~hist'.centered)]_vars

C24_Witness == repCount = 2 /\ hist.pose = "wide" /\ ~hist.centered

\* C26 as the specification states it: a frame in a borderline wide pose (the
\* relaxed thresholds cleared, not both strict ones) changes neither repCount
\* nor the phase
C26_AsWritten == [][hist'.pose = "border" => (repCount' = repCount /\ phase' = phase)]_vars

\* C26: a frame in a borderline wide pose takes the wide branch: it credits
\* one repetition exactly when jackCenterReadyRef is set and the neutral
\* baseline is known, clears jackCenterReadyRef and sets the phase "wide"
\* unless the callback's jackState is "wide" already; a frame that takes the
\* hint branch changes neither repCount nor the phase
C26_BorderlineCounts ==
    [][/\ hist'.pose = "border" =>
            /\ repCount' = repCount + (IF refs.jackCenterReadyRef /\ refs.jackNeutralAnkleGapRef # Null
                                       THEN 1 ELSE 0)
            /\ ~refs'.jackCenterReadyRef
            /\ rendered.jackState # "wide" => phase'.jackState = "wide"
       /\ hist'.pose = "between" => (repCount' = repCount /\ phase' = phase)]_vars

C26_Witness == hist.pose = "border" /\ repCount = 1 /\ feedback = MsgJackBorderBoth

\* C29: in a session any two texts that analyzeJumpingJack sets without the
\* silent option are more than JACK_FEEDBACK_COOLDOWN_MS apart
C29_FeedbackPaced == hist.toldGap = Null \/ hist.toldGap > JACK_FEEDBACK_COOLDOWN_MS

C29_Witness == hist.toldGap # Null /\ hist.pose = "between"

\* whether the step is a frame at the high end that ends a shallow attempt:
\* the frames since the last one at the high end all lay between the ends
ShallowReturns == hist.part /\ hist.leg = "out" /\ hist'.leg = "out" /\ ~hist'.part

\* C27 as the specification states it: the return to the lockout (the top)
\* from a shallow attempt leaves repCount unchanged and displays the text
\* that tells why the repetition did not count (here with the return
\* analyzed by up-to-date callbacks)
C27_AsWritten ==
    [][(ShallowReturns /\ UpToDate) =>
          /\ repCount' = repCount
          /\ feedback' = IF mode = "pushup" THEN MsgPushupNoCount ELSE MsgPullupNoCount]_vars

----------------------------------------------------------------------------
(* The squat, the push-up and the pull-up: how long a posture must last.    *)

\* the posture the analyzer of the mode finds in the frame lm: "skip" when it
\* returns at its guard; "standing", "bottom" or "moving" in a squat; "low",
\* "high" or "mid" in a push-up or a pull-up
DwellClass(lm) ==
    IF mode = "squat"
    THEN (IF SquatSkips(lm) THEN "skip"
          ELSE LET m == SquatMeasure(refs, lm)
               IN  IF m.isStanding THEN "standing"
                   ELSE IF m.bottomDetected THEN "bottom"
                   ELSE "moving")
    ELSE (IF ArmsSkip(lm) THEN "skip"
          ELSE IF ArmsLow(lm) THEN "low"
          ELSE IF ArmsHigh(lm) THEN "high"
          ELSE "mid")

\* the history of postures after the frame lm: run holds the posture of the
\* frame analyzed last and for how many analyzed frames in a row, up to two,
\* it has lasted
DwellHist(lm) ==
    LET cls == DwellClass(lm)
    IN  IF cls = "skip" THEN hist
        ELSE [hist EXCEPT !.run = [cls |-> cls,
                                   n |-> IF @.cls = cls THEN Min(@.n + 1, 2) ELSE 1]]

\* standing, the bottom of the squat and a bend of the knees with the hips
\* up; every frame of the push-up and of the pull-up
DwellFramesOf(m) ==
    IF m = "squat"
    THEN CoreFramesOf(m) \cup {SquatFrame(HipYStanding, KneeDegDeep, KneeHalfWidthWide, "all")}
    ELSE FramesOf(m)

\* the squat, the push-up and the pull-up, the clock standing still
NextDwell ==
    \/ Keep(Render)
    \/ Forget(StartBegin)
    \/ Keep(StartSucceed)
    \/ Forget(Stop)
    \/ \E lm \in DwellFramesOf(mode) : Frame(lm) /\ hist' = DwellHist(lm)

InitDwell == Init /\ mode \in {"squat", "pushup", "pullup"}

SpecDwell == InitDwell /\ [][NextDwell]_vars

\* whether the step is a frame that changes a phase or adds to repCount
FrameActs == hist'.run.cls # "none" /\ (phase' # phase \/ repCount' > repCount)

C28_FeedbackContract ==
    \A a \in hist.asked :
        LET requested == ~a.options.silent /\ (a.text # a.shown \/ a.options.allowRepeat)
        IN  /\ feedback = IF a.text # a.shown THEN a.text ELSE a.shown
            /\ ~requested => said = <<>>
            /\ requested =>
                  \/ /\ Len(said) = 1
                     /\ said[1].text = a.text /\ said[1].immediate = a.options.immediate
                  \/ /\ said = <<>>
                     /\ ~a.options.immediate
                     /\ DateNow - refs.lastSpeechTime < SPEECH_COOLDOWN_MS

\* a silent call replaced the displayed text and spoke nothing
C28_Witness ==
    \E a \in hist.asked :
        a.options.silent /\ a.options.allowRepeat /\ a.text # a.shown
            /\ feedback = a.text /\ said = <<>>

----------------------------------------------------------------------------
(* The plank: what plankLowFramesRef counts.                                *)

\* the history of the torso angle after the frame lm: bad counts the frames
\* in a row, up to PLANK_STRICT_FRAMES, that reached the angle test with a
\* smoothed torso angle under PLANK_STRONG_ANGLE
LeakHist(lm) ==
    LET branch == PlankBranch(refs, lm)
    IN  IF branch \in {"skipped", "standing"} THEN hist
        ELSE IF branch = "strong" THEN [hist EXCEPT !.bad = 0]
        ELSE [hist EXCEPT !.bad = Min(@ + 1, PLANK_STRICT_FRAMES)]

\* a straight plank and a sagging one
LeakFrames == {PlankFrame(PlankHipY, BodyDegStrong, "all"), PlankFrame(PlankHipY, BodyDegLow, "all")}

\* planks that alternate between straight and sagging, the clock in steps of TickMs
NextPlankLeak ==
    \/ Keep(Tick(TickMs))
    \/ Keep(Render)
    \/ Forget(StartBegin)
    \/ Keep(StartSucceed)
    \/ Forget(Stop)
    \/ \E lm \in LeakFrames : Frame(lm) /\ hist' = LeakHist(lm)

SpecPlankLeak == InitPlank /\ [][NextPlankLeak]_vars

\* whether the step is a frame on which the low-angle path ends the hold and
\* zeroes a timer that had accrued time
LowPathResets ==
    /\ refs'.plankLowFramesRef = refs.plankLowFramesRef + 1
    /\ refs.plankHoldActiveRef /\ ~refs'.plankHoldActiveRef
    /\ refs.plankHoldMsRef > 0 /\ refs'.plankHoldMsRef = 0

\* C30 as the specification states it: the low-angle path zeroes the timer of
\* an active hold only on a frame that ends PLANK_STRICT_FRAMES or more
\* frames in a row with a torso angle under PLANK_STRONG_ANGLE
C30_AsWritten == [][LowPathResets => hist'.bad >= PLANK_STRICT_FRAMES]_vars

----------------------------------------------------------------------------
(* The plank: the grace a near-standing posture is given.                   *)

\* the history of near-standing frames after the frame lm: near counts the
\* analyzed frames in a row, up to PLANK_STANDING_GRACE_FRAMES, that took the
\* near-standing branch
GraceHist(lm) ==
    LET branch == PlankBranch(refs, lm)
    IN  IF branch = "skipped" THEN hist
        ELSE IF branch = "standing"
        THEN [hist EXCEPT !.near = Min(@ + 1, PLANK_STANDING_GRACE_FRAMES)]
        ELSE [hist EXCEPT !.near = 0]

\* a straight plank, a sagging one, an upright body and a frame without ankle
GraceFrames ==
    LeakFrames \cup {PlankFrame(UprightHipY, BodyDegStrong, "all"),
                     PlankFrame(PlankHipY, BodyDegStrong, "noAnkle")}

\* planks interrupted by standing up, the clock in steps of TickMs
NextPlankGrace ==
    \/ Keep(Tick(TickMs))
    \/ Keep(Render)
    \/ Forget(StartBegin)
    \/ Keep(StartSucceed)
    \/ Forget(Stop)
    \/ \E lm \in GraceFrames :
          Frame(lm) /\ refs'.plankLowFramesRef <= MaxTimedLowFrames /\ hist' = GraceHist(lm)

SpecPlankGrace == InitPlank /\ [][NextPlankGrace]_vars

\* C31: plankStandingFramesRef counts the near-standing frames analyzed in a
\* row and any other analyzed frame sets it to 0; a near-standing frame that
\* is not yet the PLANK_STANDING_GRACE_FRAMES-th in a row leaves
\* plankHoldMsRef, plankHoldMs, plankHoldActiveRef and the phase as they
\* were, and the hold is over after one that is
C31_GraceBeforeBreak ==
    [][/\ Min(refs'.plankStandingFramesRef, PLANK_STANDING_GRACE_FRAMES) = hist'.near
       /\ (hist'.near > hist.near /\ hist'.near < PLANK_STANDING_GRACE_FRAMES)
            => /\ refs'.plankHoldMsRef = refs.plankHoldMsRef
               /\ plankHoldMs' = plankHoldMs
               /\ refs'.plankHoldActiveRef = refs.plankHoldActiveRef
               /\ phase' = phase
       /\ (hist'.near > hist.near /\ hist'.near = PLANK_STANDING_GRACE_FRAMES)
            => (~refs'.plankHoldActiveRef /\ refs'.plankHoldMsRef = 0 /\ plankHoldMs' = 0)]_vars

\* a hold that had accrued time was broken by the fourth near-standing frame
C31_Witness ==
    /\ hist.near = PLANK_STANDING_GRACE_FRAMES
    /\ feedback = MsgPlankPaused
    /\ ~refs.plankHoldActiveRef /\ phase.plankState = "setup"

----------------------------------------------------------------------------
(* smoothValue on its own.                                                  *)

\* the calls of smoothValue: the ref, alpha and the resolution the model
\* keeps the accumulator at
SmoothCalls ==
    {[ref |-> "smoothedHipYRef", alpha |-> SMOOTHING_ALPHA_HIPS, grid |-> CoordGrid],
     [ref |-> "smoothedKneeAngleRef", alpha |-> SMOOTHING_ALPHA_KNEE, grid |-> AngleGrid],
     [ref |-> "plankAngleRef", alpha |-> SMOOTHING_ALPHA_PLANK, grid |-> PlankGrid]}

\* the least and the greatest sample, and the step between samples
SampleMin == 100
SampleMax == 180
SampleStep == 20

\* the samples handed to smoothValue: null, NaN and numbers
SmoothSamples ==
    {Null, NaN} \cup {v \in SampleMin..SampleMax : (v - SampleMin) % SampleStep = 0}

\* the hook before any frame, with one accumulator holding nothing, NaN or an
\* earlier sample
InitSmooth ==
    /\ mode \in {"squat", "plank"}
    /\ isStarted = FALSE
    /\ isVideoReady = FALSE
    /\ appError = NoError
    /\ repCount = 0
    /\ feedback = MsgCoachReady
    /\ phase = InitialPhase
    /\ plankHoldMs = 0
    /\ rendered = Snapshot(InitialPhase, FALSE, FALSE)
    /\ \E call \in SmoothCalls, seed \in SmoothSamples :
          /\ (call.ref = "plankAngleRef") <=> (mode = "plank")
          /\ refs = [ClearedRefs(0) EXCEPT ![call.ref] = seed]
          /\ hist = [HistInit EXCEPT !.smooth.ref = call.ref, !.smooth.alpha = call.alpha,
                                     !.smooth.grid = call.grid]
    /\ pendingStarts = 0
    /\ clock = 0
    /\ said = <<>>
    /\ lastUtterAt = Null

\* smoothValue(ref, value, alpha) for the ref of this run: smooth records the
\* accumulator before the call, the sample and the value returned
Smooth(value) ==
    LET s == hist.smooth
    IN  /\ refs' = [refs EXCEPT ![s.ref] = SmoothAcc(@, value, s.alpha, s.grid)]
        /\ hist' = [hist EXCEPT !.smooth.applied = TRUE,
                                !.smooth.old = refs[s.ref],
                                !.smooth.value = value,
                                !.smooth.ret = SmoothValue(refs[s.ref], value, s.alpha, s.grid)]
        /\ said' = <<>>
        /\ UNCHANGED <<mode, isStarted, isVideoReady, appError, repCount, feedback, phase,
                       plankHoldMs, rendered, pendingStarts, clock, lastUtterAt>>

NextSmooth == \E value \in SmoothSamples : Smooth(value)

SpecSmooth == InitSmooth /\ [][NextSmooth]_vars

\* C32: smoothValue leaves the accumulator unchanged and returns null for a
\* null or NaN sample; it sets an accumulator that holds nothing to the first
\* defined sample; after that the accumulator moves from its old value by
\* alpha times the distance to the sample (to the model's resolution), so it
\* lies between the old value and the sample, and is what the call returns
C32_SmoothValue ==
    LET s == hist.smooth
        acc == refs[s.ref]
    IN  s.applied =>
            IF s.value \in {Null, NaN} THEN acc = s.old /\ s.ret = Null
            ELSE IF s.old \in {Null, NaN} THEN acc = s.value /\ s.ret = s.value
            ELSE /\ 2 * Abs(100 * (acc - s.old) - s.alpha * (s.value - s.old)) <= 100 * s.grid
                 /\ Min(s.old, s.value) <= acc /\ acc <= Max(s.old, s.value)
                 /\ s.ret = acc

\* a sample moved an accumulator part of the way, and a missing sample after
\* it left the accumulator where it was
C32_Witness ==
    LET s == hist.smooth
    IN  /\ s.applied /\ s.value = Null /\ s.ret = Null
        /\ s.old \notin {Null, NaN} /\ refs[s.ref] = s.old
        /\ (s.old - SampleMin) % SampleStep # 0

----------------------------------------------------------------------------
(* The rep announcements.                                                   *)

\* the utterances of this step that announce a rep
RepsSaid == {i \in 1..Len(said') : \E n \in 1..(MaxReps + 1) : said'[i].text = "Rep " \o ToString(n)}

\* C33: a step that raises repCount raises it by one and makes exactly one
\* utterance "Rep n" with n the new count, marked immediate and spoken at
\* once whatever was said before; no other step announces a rep, and
\* repCount falls only to 0, in a step that clears the pose state of a
\* stopped or starting session
C33_RepAnnounced ==
    [][ /\ (repCount' > repCount) =>
              /\ repCount' = repCount + 1
              /\ Cardinality(RepsSaid) = 1
              /\ \A i \in RepsSaid : /\ said'[i].text = "Rep " \o ToString(repCount')
                                     /\ said'[i].immediate
                                     /\ said'[i].at = DateNow
                                     /\ refs'.lastSpeechTime = DateNow
       /\ (repCount' <= repCount => RepsSaid = {})
       /\ (repCount' < repCount => repCount' = 0 /\ PoseCleared') ]_vars

\* the second rep of a session was announced inside the cooldown opened by
\* an earlier utterance
C33_Witness ==
    /\ repCount = 2
    /\ \E i \in 1..Len(said) : /\ said[i].text = "Rep 2" /\ said[i].immediate
                               /\ said[i].prior # Null
                               /\ said[i].at - said[i].prior < SPEECH_COOLDOWN_MS

----------------------------------------------------------------------------
(* The squat phase "down" and the depth it stands for.                      *)

\* the squat phase is "down" with the bottom hip height on record and at
\* least the rep depth below the standing height
DownIsDeep ==
    (mode = "squat" /\ phase.squatState = "down") =>
        /\ refs.bottomHipRef # Null /\ refs.standingHipRef # Null
        /\ (refs.bottomHipRef - refs.standingHipRef) * 10 >= MIN_HIP_DELTA_FOR_REP * REP_DEPTH_MARGIN

\* C34 as written: whenever the squat phase is "down" the recorded bottom is
\* at least the rep depth below the standing height, and so every confirmed
\* return to standing from "down", analyzed against the phase on screen,
\* credits a rep
C34_AsWritten ==
    [][ /\ DownIsDeep'
        /\ (mode = "squat" /\ UpToDate /\ phase.squatState = "down" /\ phase'.squatState = "up")
              => repCount' = repCount + 1 ]_vars

----------------------------------------------------------------------------
(* How the squat phase is entered.                                          *)

\* the step sets the squat phase to "down"
EntersDown == mode = "squat" /\ phase.squatState # "down" /\ phase'.squatState = "down"

\* the step sets the squat phase to "up"
EntersUp == mode = "squat" /\ phase.squatState # "up" /\ phase'.squatState = "up"

\* C35 as the specification states it: "down" is entered only from "up" and
\* only on a bottom frame that follows a bottom frame, "up" only on the
\* second or later standing frame in a row, and a frame that is not standing
\* leaves the standing dwell count at 0
C35_AsWritten ==
    [][ /\ EntersDown => (phase.squatState = "up" /\ hist'.run = [cls |-> "bottom", n |-> 2])
        /\ EntersUp => hist'.run = [cls |-> "standing", n |-> 2]
        /\ (mode = "squat" /\ hist'.run.cls \in {"bottom", "moving"})
              => refs'.standingHoldFramesRef = 0 ]_vars

\* C35: "down" is entered only from "up", by a callback that holds "up", on
\* a bottom frame that leaves bottomHoldFramesRef at MIN_BOTTOM_HOLD_FRAMES
\* or more and records the bottom; "up" is entered only on the second or
\* later standing frame in a row; after an analyzed frame that is not
\* standing the standing dwell count is 0
C35_EntersOnDwell ==
    [][ /\ EntersDown => /\ phase.squatState = "up" /\ rendered.squatState = "up"
                         /\ hist'.run.cls = "bottom"
                         /\ refs'.bottomHoldFramesRef >= MIN_BOTTOM_HOLD_FRAMES
                         /\ refs'.bottomHipRef # Null
        /\ EntersUp => /\ hist'.run = [cls |-> "standing", n |-> 2]
                       /\ refs'.standingHoldFramesRef >= MIN_STANDING_HOLD_FRAMES
        /\ (mode = "squat" /\ hist'.run.cls \in {"bottom", "moving"})
              => refs'.standingHoldFramesRef = 0 ]_vars

\* "down" was entered on a bottom frame that did not follow a bottom frame
C35_Witness ==
    /\ mode = "squat" /\ phase.squatState = "down" /\ rendered.squatState = "up"
    /\ hist.run = [cls |-> "bottom", n |-> 1]
    /\ refs.bottomHoldFramesRef = MIN_BOTTOM_HOLD_FRAMES
    /\ refs.bottomHipRef # Null

----------------------------------------------------------------------------
(* Push-ups with every frame analyzed against the phase on screen.          *)

\* a frame analyzed by callbacks that hold the current phase: the component
\* has re-rendered since the last change
SyncFrame(lm) == UpToDate /\ Frame(lm)

NextPushupSync ==
    \/ Keep(Tick(TickMs))
    \/ Keep(Render)
    \/ Forget(StartBegin)
    \/ Keep(StartSucceed)
    \/ Forget(Stop)
    \/ \E lm \in PushupFrames : SyncFrame(lm) /\ hist' = ArmHist(lm)

InitPushup == Init /\ mode = "pushup"

SpecPushupSync == InitPushup /\ [][NextPushupSync]_vars

\* C36: with every push-up frame analyzed against the up-to-date phase, the
\* phase is "lowering" only while pushupBottomSeenRef is true, and neither
\* "Rep didn't count - sink a bit deeper..." nor "Bend elbows more..." is
\* ever displayed
C36_LoweringHasSeenBottom ==
    /\ phase.pushupState = "lowering" => refs.pushupBottomSeenRef
    /\ feedback \notin {MsgPushupNoCount, MsgPushupBend}

\* a rep was credited and the next descent has reached the bottom
C36_Witness ==
    /\ phase.pushupState = "lowering" /\ refs.pushupBottomSeenRef
    /\ repCount = 1 /\ hist.leg = "low"

----------------------------------------------------------------------------
(* The plank phase while the hold timer runs.                               *)

\* the step is a frame that adds time to the hold timer
TimerAccrues ==
    /\ mode = "plank" /\ refs.plankHoldActiveRef /\ refs'.plankHoldActiveRef
    /\ refs'.plankHoldMsRef > refs.plankHoldMsRef

\* C37 as written: after every frame on which the hold timer accumulates
\* time the plank phase is "hold", also when the frame is analyzed against
\* the phase on screen and follows frames that set "adjust" without ending
\* the hold
C37_AsWritten == [][(TimerAccrues /\ UpToDate) => phase'.plankState = "hold"]_vars

----------------------------------------------------------------------------
(* Credits under a lagging phase, in the four modes that count reps.        *)

\* the ref that a credit consumes: the recorded bottom of a squat, the
\* bottom of a push-up, the hang of a pull-up, the center of a jumping jack
CreditFlag ==
    CASE mode = "squat" -> refs.bottomHipRef # Null
      [] mode = "pushup" -> refs.pushupBottomSeenRef
      [] mode = "pullup" -> refs.pullupHangSeenRef
      [] mode = "jumpingJack" -> refs.jackCenterReadyRef
      [] OTHER -> FALSE

\* whether the frame is at the bottom, in the hang or at the center
CreditPose(lm) ==
    IF mode = "jumpingJack"
    THEN (IF JackPose(lm) = "center" THEN "excursion" ELSE "other")
    ELSE (IF DwellClass(lm) \in {"bottom", "low"} THEN "excursion" ELSE "other")

\* pose: the posture of the frame of the step; lagged: the step credited a
\* rep while its callback held a phase other than the current one
CreditHist(lm) ==
    [hist EXCEPT !.pose = CreditPose(lm),
                 !.lagged = repCount' > repCount /\ ~UpToDate]

CreditFramesOf(m) == IF m = "jumpingJack" THEN JackCycleFrames ELSE DwellFramesOf(m)

NextCredit ==
    \/ Resting(Render)
    \/ Forget(StartBegin)
    \/ Resting(StartSucceed)
    \/ Forget(Stop)
    \/ \E lm \in CreditFramesOf(mode) : Frame(lm) /\ hist' = CreditHist(lm)

InitCredit == Init /\ mode \in {"squat", "pushup", "pullup", "jumpingJack"}

SpecCredit == InitCredit /\ [][NextCredit]_vars

\* C38: whatever phase the callback holds, a step that credits a rep credits
\* one, finds the mode's flag set and leaves it cleared, and the flag is set
\* again only by a frame at the bottom (in the hang, at the center) or by
\* clearPoseRefs, which zeroes repCount; so one excursion is credited at
\* most once
C38_CreditConsumesFlag ==
    [][ /\ (repCount' > repCount)
              => (repCount' = repCount + 1 /\ CreditFlag /\ ~CreditFlag' /\ hist'.pose = "other")
        /\ (CreditFlag' /\ ~CreditFlag)
              => (hist'.pose = "excursion" \/ (hist'.pose = "none" /\ repCount' = 0)) ]_vars

\* the second rep of a session was credited by a callback that held a phase
\* other than the current one
C38_Witness == repCount = 2 /\ hist.lagged /\ ~CreditFlag

----------------------------------------------------------------------------
(* A message that speak skipped, and what is said afterwards.               *)

\* the call is one that displays its message and that speak skips: the
\* message differs from the displayed text, is neither silent nor immediate
\* and arrives inside the speech cooldown
Throttled(message, options) ==
    /\ message # feedback /\ ~options.silent /\ ~options.immediate
    /\ DateNow - refs.lastSpeechTime < SPEECH_COOLDOWN_MS

\* one call of setFeedbackMessage(message, options); dropped is the last
\* message that speak skipped and that has not been spoken since, revived
\* whether this call spoke it
Voiced(message, options) ==
    LET c == SetFeedbackMessage(Ctx, message, options, DateNow)
        spoken == \E i \in 1..Len(c.said) : c.said[i].text = hist.dropped
    IN  /\ Commit(c)
        /\ hist' = [hist EXCEPT !.asked = {[text |-> message, options |-> options,
                                            shown |-> feedback]},
                                !.dropped = IF Throttled(message, options) THEN message
                                            ELSE IF spoken THEN "none"
                                            ELSE @,
                                !.revived = spoken]
        /\ UNCHANGED <<mode, isStarted, isVideoReady, appError, rendered, pendingStarts, clock>>

NextVoice ==
    \/ Tick(FeedbackTickMs) /\ hist' = [hist EXCEPT !.asked = {}, !.revived = FALSE]
    \/ \E message \in FeedbackTexts, options \in FeedbackOptionSets : Voiced(message, options)

SpecVoice == Init /\ [][NextVoice]_vars

\* the step says the message that speak skipped earlier
SaysDropped == \E i \in 1..Len(said') : said'[i].text = hist.dropped

\* C39 as written: a message that speak skipped is spoken later only by a
\* new call with that message made after some other text was displayed and
\* after the cooldown has run out (calls with allowRepeat, which the
\* analyzers never make, left aside)
C39_AsWritten ==
    [][ SaysDropped =>
            \A a \in hist'.asked :
                a.options.allowRepeat
                   \/ (a.text = hist.dropped /\ a.shown # a.text
                          /\ DateNow - refs.lastSpeechTime >= SPEECH_COOLDOWN_MS) ]_vars

\* C39: a changed message, neither silent nor immediate, that arrives inside
\* the speech cooldown becomes the displayed text and is not spoken, and
\* lastSpeechTime stays; it is spoken later only by a new call with that
\* message, made while another text is displayed (or with allowRepeat) and
\* either after the cooldown has run out or marked immediate; no other step
\* says it
C39_DroppedNotDeferred ==
    [][ /\ \A a \in hist'.asked :
              (a.text # a.shown /\ ~a.options.silent /\ ~a.options.immediate
                  /\ DateNow - refs.lastSpeechTime < SPEECH_COOLDOWN_MS)
                => /\ feedback' = a.text /\ said' = <<>>
                   /\ refs'.lastSpeechTime = refs.lastSpeechTime
                   /\ hist'.dropped = a.text
        /\ SaysDropped =>
              /\ hist'.asked # {}
              /\ \A a \in hist'.asked :
                    /\ a.text = hist.dropped /\ ~a.options.silent
                    /\ (a.shown # a.text \/ a.options.allowRepeat)
                    /\ (a.options.immediate
                           \/ DateNow - refs.lastSpeechTime >= SPEECH_COOLDOWN_MS) ]_vars

\* the message that speak skipped was displayed, replaced by another text,
\* and spoken when it was submitted again after the cooldown
C39_Witness ==
    /\ hist.revived
    /\ \E a \in hist.asked :
          /\ a.options = NoOptions /\ a.shown # a.text
          /\ feedback = a.text
          /\ Len(said) = 1 /\ said[1].text = a.text
          /\ said[1].prior # Null /\ said[1].at - said[1].prior >= SPEECH_COOLDOWN_MS

----------------------------------------------------------------------------
(* The refs of the plank hold timer.                                        *)

\* pose: the branch of the frame that ended a hold with published time
EndHist(lm) ==
    [hist EXCEPT !.pose = IF refs.plankHoldActiveRef /\ ~refs'.plankHoldActiveRef
                             /\ plankHoldMs > 0
                          THEN PlankBranch(refs, lm)
                          ELSE "other"]

\* the time up to which the frames of these runs arrive: two frame intervals
MaxRefsClock == 120

\* a straight plank, a sagging one and the body upright
EndFrames == LeakFrames \cup {PlankFrame(UprightHipY, BodyDegStrong, "all")}

NextPlankRefs ==
    \/ Resting(Tick(PlankTickMs)) /\ clock' <= MaxRefsClock
    \/ Resting(Render)
    \/ Forget(StartBegin)
    \/ Resting(StartSucceed)
    \/ Forget(Stop)
    \/ \E lm \in EndFrames :
          /\ Frame(lm)
          /\ refs'.plankLowFramesRef <= PLANK_STRICT_FRAMES
          /\ refs'.plankStandingFramesRef <= PLANK_STANDING_GRACE_FRAMES
          /\ hist' = EndHist(lm)

SpecPlankRefs == InitPlank /\ [][NextPlankRefs]_vars

\* C40: with plankHoldActiveRef false plankHoldMsRef is 0 and
\* plankLastTimestampRef is null; with it true plankLastTimestampRef is set;
\* the published plankHoldMs never exceeds plankHoldMsRef and is 0 whenever
\* plankHoldMsRef is 0
C40_TimerRefs ==
    /\ ~refs.plankHoldActiveRef
          => (refs.plankHoldMsRef = 0 /\ refs.plankLastTimestampRef = Null)
    /\ refs.plankHoldActiveRef => refs.plankLastTimestampRef # Null
    /\ plankHoldMs <= refs.plankHoldMsRef
    /\ refs.plankHoldMsRef = 0 => plankHoldMs = 0

\* a hold that had published time was ended by a run of low frames
C40_Witness ==
    /\ hist.pose = "low"
    /\ ~refs.plankHoldActiveRef /\ refs.plankHoldMsRef = 0
    /\ refs.plankLastTimestampRef = Null /\ plankHoldMs = 0

=============================================================================
